---- MODULE Spec2Model ----
(***************************************************************************)
(* Omega3D: the Simulation stepper (src/src/Simulation.cpp, Simulation.h),  *)
(* the Surfaces panel collection (src/src/Surfaces.h) and the right-hand   *)
(* side of the boundary-element system (src/src/RHS.h) and the influence   *)
(* kernels (Kernels.h, src/unnamed/part_001).                              *)
(*                                                                         *)
(* Simulation: one caller thread calls the public methods; every           *)
(* async_step starts a std::async(std::launch::async) thread that runs     *)
(* step().  step() is modelled statement by statement: each zero_vels,     *)
(* each std::visit(visitor, src, targ), each finalize_vels, each move and  *)
(* the read and the write of "time += dt" is one step of the task.         *)
(* Times are counted in units of 0.01 (the constructor's dt is 1 unit).    *)
(* The stepper holds a collection of vort as its particle count; where the *)
(* caller's parameters and add_particles are followed (ParamSpec), pts     *)
(* holds the particles themselves.  The kernels are applied to one target  *)
(* at a time (KernSpec), with exact values in place of floats.             *)
(***************************************************************************)
EXTENDS Integers, Sequences, FiniteSets, TLC

\* ---- bounds of the model ----
MaxSteps == 2          \* async_step calls in one behaviour
MaxBdry == 1           \* boundary collections held in bdry
MaxFldpt == 1          \* field-point collections held in fldpt
MaxParts == 2          \* particles added in one behaviour
MaxDt == 2             \* dt values the caller writes through addr_dt(): 1..MaxDt
MaxRe == 2             \* re values the caller writes through addr_re(): 1..MaxRe
MaxFs == 1             \* fs values the caller writes through addr_fs(): 0..MaxFs
MaxXLen == 4           \* length of a position array handed to Surfaces
MaxIdxLen == 3         \* length of an index array handed to Surfaces
MaxIdxVal == 1         \* largest node index in an index array
MaxValLen == 4         \* length of a value array handed to Surfaces
MaxPanels == 2         \* panels held by the Surfaces object
MaxAccum == 1          \* raw velocities added to one panel between zero_vels and finalize_vels
MaxFinalize == 1       \* finalize_vels calls since the last zero_vels
MaxCalls == 2          \* kernel calls into one target since its accumulators were zeroed

\* ---- program constants ----
MaxVort == 1           \* add_particles pushes a collection only when vort is empty
InitDt == 1            \* constructor: dt(0.01), one time unit
InitRe == 1            \* constructor: re(100.0), one unit
InitFs == 0            \* constructor: fs{0.0,0.0,0.0}
ParticleStride == 7    \* add_particles: seven floats per particle
Dimensions == 3        \* Omega3D.h: const size_t Dimensions = 3

VARIABLES
  vort,                \* std::vector<Collection> vort: particle count of each collection
  bdry,                \* bdry.size()
  fldpt,               \* fldpt.size()
  dt,                  \* float dt
  time,                \* double time
  sim_is_initialized,
  step_has_started,
  step_is_finished,
  stepfuture,          \* 0: no shared state (invalid); t: the shared state of task t
  tasks,               \* the threads started by std::async, by launch number
  callerpc,            \* where the caller thread is
  newfuture,           \* the temporary returned by std::async inside async_step
  ret,                 \* what the last test_for_new_results or get_nparts returned
  nstarted,            \* history: async_step calls since construction or reset
  nconsumed,           \* history: results consumed by test_for_new_results since then
  dtsteady,            \* history: dt not rewritten since the first of those steps
  surf,                \* one Surfaces<S> object: its arrays, their sizes and flags
  rhs,                 \* the vector RHSVisitor returned, until the collection is next used
  px,                  \* the vector represent_as_particles returned, until then too
  kern,                \* one kernel call: its arguments and the target's accumulators
  re,                  \* float re
  simfs,               \* float fs[3], one value for the three
  pts                  \* the particles of vort one by one, where add_particles is given its vector

simvars == <<vort, bdry, fldpt, dt, time, sim_is_initialized, step_has_started,
             step_is_finished, stepfuture, tasks, callerpc, newfuture, ret,
             nstarted, nconsumed, dtsteady, re, simfs, pts>>

vars == <<simvars, surf, rhs, px, kern>>

\* ---- collections and the statements of step() ----
NoColl == <<"none", 0>>
V(i) == <<"vort", i>>
B(i) == <<"bdry", i>>
F(i) == <<"fldpt", i>>

Stmt(o, s, t, l) == [op |-> o, src |-> s, targ |-> t, len |-> l]

RECURSIVE Flatten(_)
Flatten(ss) == IF ss = <<>> THEN <<>> ELSE Head(ss) \o Flatten(Tail(ss))

\* lines 189-197: for targ in bdry { zero_vels; for src in vort: visit(src,targ) }
PhaseBdryFromVort(nb) ==
  Flatten([t \in 1..nb |->
    <<Stmt("zero", NoColl, B(t), 0)>> \o
    [s \in 1..MaxVort |-> Stmt("acc", V(s), B(t), 0)]])

\* lines 202-208: for targ in bdry { for src in bdry: visit(src,targ) }
PhaseBdryFromBdry(nb) ==
  Flatten([t \in 1..nb |-> [s \in 1..nb |-> Stmt("acc", B(s), B(t), 0)]])

\* the body of lines 217-232 and 235-249 for one target
TargetBody(targ, nb) ==
  <<Stmt("zero", NoColl, targ, 0)>> \o
  [s \in 1..MaxVort |-> Stmt("acc", V(s), targ, 0)] \o
  [s \in 1..nb |-> Stmt("acc", B(s), targ, 0)] \o
  <<Stmt("fin", NoColl, targ, 0)>>

\* lines 217-232: for targ in vort { body }; the loop test is a statement of its own
PhaseVort(nb) ==
  Flatten([t \in 1..MaxVort |->
    <<Stmt("loop", NoColl, V(t), Len(TargetBody(V(t), nb)))>> \o TargetBody(V(t), nb)])

\* the field-point loop with each target also visited as a source
PhaseFldpt_self_source(nb, nf) ==
  Flatten([t \in 1..nf |->
    <<Stmt("zero", NoColl, F(t), 0), Stmt("acc", F(t), F(t), 0),
      Stmt("fin", NoColl, F(t), 0)>>])

\* lines 235-249: for targ in fldpt { body }
PhaseFldpt(nb, nf) ==
  Flatten([t \in 1..nf |-> TargetBody(F(t), nb)])

\* lines 254-262: move every collection of vort, then bdry, then fldpt
PhaseMove(nb, nf) ==
  [c \in 1..MaxVort |-> Stmt("move", NoColl, V(c), 0)] \o
  [c \in 1..nb |-> Stmt("move", NoColl, B(c), 0)] \o
  [c \in 1..nf |-> Stmt("move", NoColl, F(c), 0)]

\* line 292: time += (double)dt, a load and a store
PhaseTime ==
  <<Stmt("rdtime", NoColl, NoColl, 0), Stmt("wrtime", NoColl, NoColl, 0)>>

\* step() with the convection loops placed before the field-point loop
StepProgram_move_early(nb, nf) ==
  PhaseBdryFromVort(nb) \o PhaseBdryFromBdry(nb) \o PhaseVort(nb) \o
  PhaseMove(nb, nf) \o PhaseFldpt(nb, nf) \o PhaseTime

\* the body of step() as a straight-line program over bdry.size() and fldpt.size()
StepProgram(nb, nf) ==
  PhaseBdryFromVort(nb) \o PhaseBdryFromBdry(nb) \o PhaseVort(nb) \o
  PhaseFldpt(nb, nf) \o PhaseMove(nb, nf) \o PhaseTime

\* step() for every size of bdry and fldpt the model holds
ProgTable == [nb \in 0..MaxBdry |-> [nf \in 0..MaxFldpt |-> StepProgram(nb, nf)]]

Prog == ProgTable[bdry][fldpt]

\* ---- tasks and futures ----
NoTask == [pc |-> 0, log |-> <<>>, treg |-> 0, dts |-> {}]

TaskIds == 1..MaxSteps
TaskCreated(t) == tasks[t].pc > 0
TaskRunning(t) == tasks[t].pc \in 1..Len(Prog)
TaskDone(t) == tasks[t].pc > Len(Prog)
SomeTaskRunning == \E t \in TaskIds : TaskRunning(t)
NumLaunched == Cardinality({t \in TaskIds : TaskCreated(t)})

\* is_future_ready without the wait_for: ready as soon as valid
is_future_ready_valid_only(f) == f # 0

\* is_future_ready with the status test inverted
is_future_ready_inverted(f) ==
  IF f = 0 THEN FALSE ELSE ~TaskDone(f)

\* Simulation.h 18-22
is_future_ready(f) ==
  IF f = 0 THEN FALSE ELSE TaskDone(f)

\* a reset() that does not wait for the step
FutureWaitReturns_nowait(f) == TRUE

\* std::future::wait / get return once the task has completed
FutureWaitReturns(f) == TaskDone(f)

\* releasing the shared state of a std::async future joins its thread
FutureReleaseReturns(f) == IF f = 0 THEN TRUE ELSE TaskDone(f)

Ret(o, v, n) == [op |-> o, val |-> v, n |-> n]

\* ---- floating-point values, kept exact ----
\* A float is <<n, d>>: the rational n/d in lowest terms with d > 0, an
\* infinity <<1, 0>> or <<-1, 0>>, or the NaN <<0, 0>>.  Rounding is not modelled.
RECURSIVE Gcd(_, _)
Gcd(a, b) == IF b = 0 THEN a ELSE Gcd(b, a % b)
Abs(a) == IF a < 0 THEN -a ELSE a
Sgn(a) == IF a > 0 THEN 1 ELSE IF a < 0 THEN -1 ELSE 0
Q(n, d) ==
  IF d = 0 THEN <<Sgn(n), 0>>
  ELSE LET g == Gcd(Abs(n), Abs(d)) IN <<(Sgn(d) * n) \div g, Abs(d) \div g>>
R(n) == <<n, 1>>
NaN == <<0, 0>>
IsFinite(a) == a[2] > 0
FNeg(a) == <<-a[1], a[2]>>
\* the sum over the least common denominator, to keep the integers small
FAdd(a, b) ==
  IF a[2] = 0 /\ b[2] = 0 THEN (IF a = b THEN a ELSE NaN)
  ELSE LET g == Gcd(a[2], b[2])
       IN Q(a[1] * (b[2] \div g) + b[1] * (a[2] \div g), (a[2] \div g) * b[2])
FSub(a, b) == FAdd(a, FNeg(b))
\* the product with the common factors taken out first
FMul(a, b) ==
  LET g1 == Gcd(Abs(a[1]), b[2])
      g2 == Gcd(Abs(b[1]), a[2])
      f1 == IF g1 = 0 \/ g2 = 0 THEN 1 ELSE g1
      f2 == IF g1 = 0 \/ g2 = 0 THEN 1 ELSE g2
  IN Q((a[1] \div f1) * (b[1] \div f2), (a[2] \div f2) * (b[2] \div f1))
FInv(a) == Q(a[2], a[1])
FPositive(a) == a[1] > 0
ISqrt(n) == CHOOSE k \in 0..n : k * k = n
FSqrt(a) ==
  IF a[1] < 0 THEN NaN
  ELSE IF a[2] = 0 THEN a
  ELSE <<ISqrt(a[1]), ISqrt(a[2])>>

\* ---- vectors of Dimensions floats (MathHelper.h is not among the sources) ----
VSub(v, w) == [j \in 1..Dimensions |-> FSub(v[j], w[j])]
VScale(v, f) == [j \in 1..Dimensions |-> FMul(v[j], f)]
dot_product(v, w) ==
  FAdd(FAdd(FMul(v[1], w[1]), FMul(v[2], w[2])), FMul(v[3], w[3]))
length(v) == FSqrt(dot_product(v, v))
cross_product(v, w) ==
  <<FSub(FMul(v[2], w[3]), FMul(v[3], w[2])),
    FSub(FMul(v[3], w[1]), FMul(v[1], w[3])),
    FSub(FMul(v[1], w[2]), FMul(v[2], w[1]))>>

\* ---- velocities: polynomials in the constant factor = 0.25/M_PI ----
\* <<c0, c1, ...>> is c0 + c1*factor + c2*factor^2 + ...
PZero == <<R(0)>>
PCoef(p, k) == IF k <= Len(p) THEN p[k] ELSE R(0)
PMax(a, b) == IF a >= b THEN a ELSE b
PAdd(p, q) == [k \in 1..PMax(Len(p), Len(q)) |-> FAdd(PCoef(p, k), PCoef(q, k))]
PScale(p, f) == [k \in 1..Len(p) |-> FMul(p[k], f)]
PNeg(p) == [k \in 1..Len(p) |-> FNeg(p[k])]
PConst(f) == <<f>>
PTimesFactor(p) == <<R(0)>> \o p

\* ---- Surfaces<S>: what the object holds ----
ElemTypes == {"active", "reactive", "inert"}
MoveTypes == {"lagrangian", "bodybound", "fixed"}

\* no object yet
NoSurf == [state |-> "none"]

\* Surfaces.h 57-60: the members after the initializer list, every array empty.
\* uxlen = -1: the optional ux holds nothing.
\* x, ux: one position per node; b, area, vs, ps, pu: one entry per panel;
\* bc: one array per boundary-condition component.
EmptySurf(E, M, hasB) ==
  [state |-> "ok", E |-> E, M |-> M, B |-> hasB,
   n |-> 0, np |-> 0, xlen |-> 0, uxlen |-> -1, idx |-> <<>>,
   blen |-> 0, arealen |-> 0, vslen |-> 0, pslen |-> 0,
   bcn |-> 0, bclen |-> 0, ulen |-> 0, pulen |-> 0, ub |-> FALSE,
   x |-> <<>>, ux |-> <<>>, b |-> <<>>, area |-> <<>>,
   vs |-> <<>>, ps |-> <<>>, bc |-> <<>>, pu |-> <<>>]

\* no right-hand side computed yet
NoRhs == [op |-> "none", E |-> "none", val |-> <<>>]

\* no particle version of the panels asked for yet
NoPx == [op |-> "none", offset |-> <<0, 1>>, vdelta |-> <<0, 1>>, val |-> <<>>]

\* no kernel call made yet
NoKern == [op |-> "none", t |-> <<>>, tr |-> <<0, 1>>, acc |-> <<>>, calls |-> <<>>]

Init ==
  /\ surf = NoSurf
  /\ rhs = NoRhs
  /\ px = NoPx
  /\ kern = NoKern
  /\ vort = <<>>
  /\ bdry \in 0..MaxBdry
  /\ fldpt \in 0..MaxFldpt
  /\ dt = InitDt
  /\ re = InitRe
  /\ simfs = InitFs
  /\ pts = <<>>
  /\ time = 0
  /\ sim_is_initialized = FALSE
  /\ step_has_started = FALSE
  /\ step_is_finished = FALSE
  /\ stepfuture = 0
  /\ tasks = [t \in TaskIds |-> NoTask]
  /\ callerpc = "ready"
  /\ newfuture = 0
  /\ ret = Ret("none", FALSE, 0)
  /\ nstarted = 0
  /\ nconsumed = 0
  /\ dtsteady = TRUE

\* ---- Points (the particle collection behind vort; Points.h is not among the sources) ----
\* Points<float>(_invec, active, lagrangian): one particle per ParticleStride floats
PointsNew(len) == len \div ParticleStride
\* Points::add_new(_invec): appends one particle per ParticleStride floats
PointsAddNew(cnt, len) == cnt + (len \div ParticleStride)

RECURSIVE SumSeq(_)
SumSeq(s) == IF s = <<>> THEN 0 ELSE Head(s) + SumSeq(Tail(s))

\* ---- the caller thread ----
callervars == <<callerpc, newfuture, ret>>
histvars == <<nstarted, nconsumed, dtsteady>>
collvars == <<vort, bdry, fldpt>>
flagvars == <<sim_is_initialized, step_has_started, step_is_finished>>

\* a thread that has finished and been joined keeps nothing
JoinedTask == [pc |-> Len(Prog) + 1, log |-> <<>>, treg |-> 0, dts |-> {}]
Join(f) == IF f = 0 THEN tasks ELSE [tasks EXCEPT ![f] = JoinedTask]

\* Simulation.cpp 155 and the right-hand side of 156: the flag is set and the thread started
AsyncStepLaunch ==
  /\ callerpc = "ready"
  /\ NumLaunched < MaxSteps
  /\ step_has_started' = TRUE
  /\ LET t == NumLaunched + 1 IN
       /\ tasks' = [tasks EXCEPT ![t] = [pc |-> 1, log |-> <<>>, treg |-> 0, dts |-> {}]]
       /\ newfuture' = t
  /\ callerpc' = "async_step"
  /\ nstarted' = nstarted + 1
  /\ UNCHANGED <<surf, rhs, px, kern, re, simfs, pts, collvars, dt, time, sim_is_initialized, step_is_finished, stepfuture,
                 ret, nconsumed, dtsteady>>

\* Simulation.cpp 156, the move assignment: the old shared state is released first
AsyncStepAssign ==
  /\ callerpc = "async_step"
  /\ FutureReleaseReturns(stepfuture)
  /\ tasks' = Join(stepfuture)
  /\ stepfuture' = newfuture
  /\ newfuture' = 0
  /\ callerpc' = "ready"
  /\ UNCHANGED <<surf, rhs, px, kern, re, simfs, pts, collvars, dt, time, flagvars, ret, histvars>>

\* Simulation.cpp 127-149
TestForNewResults ==
  /\ callerpc = "ready"
  /\ IF ~step_has_started
       THEN /\ ret' = Ret("test_for_new_results", TRUE, 0)
            /\ UNCHANGED <<stepfuture, tasks, step_is_finished, step_has_started, nconsumed>>
       ELSE IF is_future_ready(stepfuture)
         THEN /\ FutureWaitReturns(stepfuture)
              /\ tasks' = Join(stepfuture)
              /\ stepfuture' = 0
              /\ step_is_finished' = TRUE
              /\ step_has_started' = FALSE
              /\ nconsumed' = nconsumed + 1
              /\ ret' = Ret("test_for_new_results", TRUE, 0)
         ELSE /\ ret' = Ret("test_for_new_results", FALSE, 0)
              /\ UNCHANGED <<stepfuture, tasks, step_is_finished, step_has_started,
                             nconsumed>>
  /\ UNCHANGED <<surf, rhs, px, kern, re, simfs, pts, collvars, dt, time, sim_is_initialized, callerpc, newfuture, nstarted,
                 dtsteady>>

\* Simulation.cpp 107: the caller enters reset()
ResetEnter ==
  /\ callerpc = "ready"
  /\ callerpc' = "reset"
  /\ UNCHANGED <<surf, rhs, px, kern, re, simfs, pts, collvars, dt, time, flagvars, stepfuture, tasks, newfuture, ret, histvars>>

\* reset() with the two commented-out lines 117-118 put back: vort and bdry emptied
ResetFinish_clearing ==
  /\ callerpc = "reset"
  /\ IF stepfuture # 0 THEN FutureWaitReturns(stepfuture) ELSE TRUE
  /\ tasks' = Join(stepfuture)
  /\ stepfuture' = 0
  /\ time' = 0
  /\ sim_is_initialized' = FALSE
  /\ step_has_started' = FALSE
  /\ step_is_finished' = FALSE
  /\ callerpc' = "ready"
  /\ nstarted' = 0
  /\ nconsumed' = 0
  /\ dtsteady' = TRUE
  /\ vort' = <<>> /\ pts' = <<>> /\ bdry' = 0
  /\ UNCHANGED <<surf, rhs, px, kern, re, simfs, fldpt, dt, newfuture, ret>>

\* Simulation.cpp 110-121: wait and get if the future is valid, then clear
ResetFinish ==
  /\ callerpc = "reset"
  /\ IF stepfuture # 0 THEN FutureWaitReturns(stepfuture) ELSE TRUE
  /\ tasks' = Join(stepfuture)
  /\ stepfuture' = 0
  /\ time' = 0
  /\ sim_is_initialized' = FALSE
  /\ step_has_started' = FALSE
  /\ step_is_finished' = FALSE
  /\ callerpc' = "ready"
  /\ nstarted' = 0
  /\ nconsumed' = 0
  /\ dtsteady' = TRUE
  /\ UNCHANGED <<surf, rhs, px, kern, re, simfs, pts, collvars, dt, newfuture, ret>>

\* Simulation.cpp 299-336; an empty vector returns at line 301
AddParticles(len) ==
  /\ callerpc = "ready"
  /\ len % ParticleStride = 0
  /\ SumSeq(vort) + len \div ParticleStride <= MaxParts
  /\ vort' = IF len = 0 THEN vort
             ELSE IF Len(vort) = 0
               THEN <<PointsNew(len)>>
               ELSE [vort EXCEPT ![Len(vort)] = PointsAddNew(@, len)]
  /\ UNCHANGED <<surf, rhs, px, kern, re, simfs, pts, bdry, fldpt, dt, time, flagvars, stepfuture, tasks, callervars, histvars>>

\* Simulation.cpp 44-51
GetNparts ==
  /\ callerpc = "ready"
  /\ ret' = Ret("get_nparts", FALSE, SumSeq(vort))
  /\ UNCHANGED <<surf, rhs, px, kern, re, simfs, pts, collvars, dt, time, flagvars, stepfuture, tasks, callerpc, newfuture,
                 histvars>>

\* Simulation.cpp 105
SetInitialized ==
  /\ callerpc = "ready"
  /\ sim_is_initialized' = TRUE
  /\ UNCHANGED <<surf, rhs, px, kern, re, simfs, pts, collvars, dt, time, step_has_started, step_is_finished, stepfuture,
                 tasks, callervars, histvars>>

\* Simulation.cpp 33: the caller writes the timestep through addr_dt()
SetDt(v) ==
  /\ callerpc = "ready"
  /\ dt' = v
  /\ dtsteady' = IF nstarted > 0 /\ v # dt THEN FALSE ELSE dtsteady
  /\ UNCHANGED <<surf, rhs, px, kern, re, simfs, pts, collvars, time, flagvars, stepfuture, tasks, callervars, nstarted,
                 nconsumed>>

\* Simulation.cpp 32: the caller writes the Reynolds number through addr_re()
SetRe(v) ==
  /\ callerpc = "ready"
  /\ re' = v
  /\ UNCHANGED <<surf, rhs, px, kern, simfs, pts, collvars, dt, time, flagvars, stepfuture, tasks,
                 callervars, histvars>>

\* Simulation.cpp 34: the caller writes the freestream through addr_fs()
SetFs(v) ==
  /\ callerpc = "ready"
  /\ simfs' = v
  /\ UNCHANGED <<surf, rhs, px, kern, re, pts, collvars, dt, time, flagvars, stepfuture, tasks,
                 callervars, histvars>>

\* Simulation.cpp 37-39: std::sqrt(dt/re), kept as the quotient under the root,
\* times the two factors of Diffusion, which are not among the sources
get_hnu(d, r) == <<"sqrt", Q(d, r)>>
get_vdelta(d, r) == <<"particle_overlap*nom_sep_scaled", get_hnu(d, r)>>

\* Points<float>(_invec, active, lagrangian): one particle per ParticleStride floats
PointsOf(invec, E, M) ==
  [E |-> E, M |-> M,
   p |-> [i \in 1..(Len(invec) \div ParticleStride) |->
            SubSeq(invec, ParticleStride * (i - 1) + 1, ParticleStride * i)]]

\* Points::add_new(_invec) and Points::getn()
PointsWith(c, invec) == [c EXCEPT !.p = @ \o PointsOf(invec, c.E, c.M).p]
getn(c) == Len(c.p)

\* add_particles making a collection of every vector it is given
add_particles_always_new(v, invec, thisvd) ==
  IF Len(invec) = 0 THEN v
  ELSE LET stamped == [i \in 1..Len(invec) |->
                         IF i % ParticleStride = 0 THEN thisvd ELSE invec[i]]
       IN Append(v, PointsOf(stamped, "active", "lagrangian"))

\* Simulation.cpp 299-336 on the contents of vort: _invec[6], _invec[13], ...
\* are overwritten, then the vector makes the first collection or joins the last
add_particles(v, invec, thisvd) ==
  IF Len(invec) = 0 THEN v
  ELSE LET stamped == [i \in 1..Len(invec) |->
                         IF i % ParticleStride = 0 THEN thisvd ELSE invec[i]]
       IN IF Len(v) = 0
            THEN <<PointsOf(stamped, "active", "lagrangian")>>
            ELSE [v EXCEPT ![Len(v)] = PointsWith(@, stamped)]

\* Simulation.cpp 44-51 on the contents of vort
get_nparts(v) == SumSeq([i \in 1..Len(v) |-> getn(v[i])])

\* Simulation.cpp 299-336 with the vector itself
AddParticlesVec(invec) ==
  /\ callerpc = "ready"
  /\ Len(invec) % ParticleStride = 0
  /\ get_nparts(pts) + Len(invec) \div ParticleStride <= MaxParts
  /\ pts' = add_particles(pts, invec, get_vdelta(dt, re))
  /\ vort' = [i \in 1..Len(pts') |-> getn(pts'[i])]
  /\ UNCHANGED <<surf, rhs, px, kern, re, simfs, bdry, fldpt, dt, time, flagvars, stepfuture, tasks,
                 callervars, histvars>>

\* ---- the step task ----
Cur(t) == Prog[tasks[t].pc]
Entry(s) == [op |-> s.op, src |-> s.src, targ |-> s.targ]
\* a range-for over vort visits element i only if it is there when the loop is entered
CollExists(c) == c[1] = "vort" => c[2] <= Len(vort)

Advance(t, e) == tasks' = [tasks EXCEPT ![t].pc = @ + 1, ![t].log = Append(@, e)]
Jump(t, k) == tasks' = [tasks EXCEPT ![t].pc = @ + k]

taskframe == <<surf, rhs, px, kern, re, simfs, pts, collvars, dt, flagvars, stepfuture, callervars, histvars>>

\* elem.zero_vels(): lines 192, 220, 238
StepZero(t) ==
  /\ TaskRunning(t)
  /\ Cur(t).op = "zero"
  /\ Advance(t, Entry(Cur(t)))
  /\ UNCHANGED <<taskframe, time>>

\* std::visit(visitor, src, targ): lines 194-196, 205-207, 222-229, 240-246
StepAccum(t) ==
  /\ TaskRunning(t)
  /\ Cur(t).op = "acc"
  /\ IF CollExists(Cur(t).src) THEN Advance(t, Entry(Cur(t))) ELSE Jump(t, 1)
  /\ UNCHANGED <<taskframe, time>>

\* line 217: the test of "for (auto &targ : vort)"
StepLoop(t) ==
  /\ TaskRunning(t)
  /\ Cur(t).op = "loop"
  /\ IF CollExists(Cur(t).targ) THEN Jump(t, 1) ELSE Jump(t, Cur(t).len + 1)
  /\ UNCHANGED <<taskframe, time>>

\* elem.finalize_vels(thisfs): lines 231, 248
StepFinalize(t) ==
  /\ TaskRunning(t)
  /\ Cur(t).op = "fin"
  /\ Advance(t, Entry(Cur(t)))
  /\ UNCHANGED <<taskframe, time>>

\* the values of dt the execution has read so far, with the read of this statement
MoveDt(t, d) == tasks[t].dts \cup {d}

\* elem.move(dt): lines 254-262; the lambda reads the member dt at each call
StepMove(t) ==
  /\ TaskRunning(t)
  /\ Cur(t).op = "move"
  /\ IF CollExists(Cur(t).targ)
       THEN tasks' = [tasks EXCEPT ![t].pc = @ + 1,
                                   ![t].log = Append(@, Entry(Cur(t))),
                                   ![t].dts = MoveDt(t, dt)]
       ELSE Jump(t, 1)
  /\ UNCHANGED <<taskframe, time>>

\* "time = dt" in place of "time += dt"
AdvanceTime_assign(tm, d) == d

\* the sum that "time += (double)dt" stores
AdvanceTime(tm, d) == tm + d

\* line 292, the load of time and dt
StepReadTime(t) ==
  /\ TaskRunning(t)
  /\ Cur(t).op = "rdtime"
  /\ tasks' = [tasks EXCEPT ![t].pc = @ + 1,
                            ![t].treg = AdvanceTime(time, dt),
                            ![t].dts = MoveDt(t, dt),
                            ![t].log = Append(@, Entry(Cur(t)))]
  /\ UNCHANGED <<taskframe, time>>

\* line 292, the store to time; step() then returns
StepWriteTime(t) ==
  /\ TaskRunning(t)
  /\ Cur(t).op = "wrtime"
  /\ time' = tasks[t].treg
  /\ tasks' = [tasks EXCEPT ![t].pc = @ + 1,
                            ![t].treg = 0,
                            ![t].log = Append(@, Entry(Cur(t)))]
  /\ UNCHANGED taskframe

StepTask(t) ==
  \/ StepZero(t)
  \/ StepAccum(t)
  \/ StepLoop(t)
  \/ StepFinalize(t)
  \/ StepMove(t)
  \/ StepReadTime(t)
  \/ StepWriteTime(t)

\* ---- Surfaces<S>: construction and add_new ----
\* a failed assert aborts; the object is as the statements before it left it
Abort(s) == [s EXCEPT !.state = "aborted"]

\* std::vector::resize: the first entries are kept, new ones are value-initialized
Resize(v, n, fill) == [i \in 1..n |-> IF i <= Len(v) THEN v[i] ELSE fill]

ZeroVec == <<R(0), R(0), R(0)>>
ZeroVel == <<PZero, PZero, PZero>>
ZeroStr == <<R(0), R(0)>>

\* (_x[Dimensions*i], _x[Dimensions*i+1], _x[Dimensions*i+2]) for i = 0, 1, ...
NodeOf(xin, i) == [d \in 1..Dimensions |-> xin[Dimensions * i + d]]

\* this->x[j][id] for j = 0..2; outside the vector the read yields whatever lies there
NodeAt(s, id, stray) == IF id < s.xlen THEN s.x[id + 1] ELSE stray

\* Surfaces.h 633-657: the basis and the area of the panel on nodes p0, p1, p2
PanelBasis(p0, p1, p2) ==
  LET d1 == VSub(p1, p0)
      base == length(d1)
      x1 == VScale(d1, FInv(base))
      d2 == VSub(p2, p0)
      dp == dot_product(d2, x1)
      x2r == VSub(d2, VScale(x1, dp))
      height == length(x2r)
      x2 == VScale(x2r, FInv(height))
  IN [b |-> [x1 |-> x1, x2 |-> x2, norm |-> cross_product(x1, x2)],
      area |-> FMul(FMul(Q(1, 2), base), height)]

\* the basis and area of panel i (from 1) of s from the positions s holds now
PanelGeom(s, i, stray) ==
  PanelBasis(NodeAt(s, s.idx[3 * i - 2], stray),
             NodeAt(s, s.idx[3 * i - 1], stray),
             NodeAt(s, s.idx[3 * i], stray))

\* compute_bases with the loop started at panel 0 in place of norig
compute_bases_from_zero(s, nnew, stray) ==
  IF 3 * nnew # Len(s.idx) THEN Abort(s)
  ELSE LET outside == \E i \in 1..(3 * nnew) : s.idx[i] >= s.xlen
       IN [s EXCEPT !.blen = nnew, !.arealen = nnew, !.ub = @ \/ outside,
                    !.b = [i \in 1..nnew |-> PanelGeom(s, i, stray).b],
                    !.area = [i \in 1..nnew |-> PanelGeom(s, i, stray).area]]

\* Surfaces.h 608-661: resize b and area to nnew, fill panels norig..nnew-1 from
\* x[idx[..]]; a node index outside x is a read outside the vector
compute_bases(s, nnew, stray) ==
  IF 3 * nnew # Len(s.idx) THEN Abort(s)
  ELSE LET norig == s.blen
           outside == \E i \in (3 * norig + 1)..(3 * nnew) : s.idx[i] >= s.xlen
       IN [s EXCEPT !.blen = nnew, !.arealen = nnew, !.ub = @ \/ outside,
                    !.b = [i \in 1..nnew |->
                             IF i <= norig THEN s.b[i] ELSE PanelGeom(s, i, stray).b],
                    !.area = [i \in 1..nnew |->
                                IF i <= norig THEN s.area[i] ELSE PanelGeom(s, i, stray).area]]

\* Surfaces.h 246: ps[d][i] for d = 0..2
PanelStrength(v, bb, ar) ==
  [d \in 1..Dimensions |-> FMul(FAdd(FMul(v[1], bb.x1[d]), FMul(v[2], bb.x2[d])), ar)]

\* Surfaces.h 229-255
vortex_sheet_to_panel_strength(s, num) ==
  IF s.vslen # num \/ s.vslen # s.blen THEN Abort(s)
  ELSE [s EXCEPT !.pslen = num,
                 !.ps = [i \in 1..num |-> PanelStrength(s.vs[i], s.b[i], s.area[i])]]

\* Surfaces.h 566-604, its two asserts
set_geom_center(s) ==
  IF ~s.B \/ s.uxlen < 0 THEN Abort(s) ELSE s

\* Surfaces.h 105-143 and 349-391: where the value array goes, by element type;
\* ntot panels after the call, nsurfs of them new
StoreValues(s, isnew, valin, nsurfs, ntot) ==
  LET vl == Len(valin)
      neold == ntot - nsurfs
  IN
  IF s.E = "active"
    THEN IF vl # 2 * nsurfs THEN Abort(s)
         ELSE vortex_sheet_to_panel_strength(
                [s EXCEPT !.vslen = ntot,
                          !.vs = [i \in 1..ntot |->
                                    IF i > neold
                                      THEN <<valin[2 * (i - neold) - 1], valin[2 * (i - neold)]>>
                                      ELSE Resize(s.vs, neold, ZeroStr)[i]]], ntot)
  ELSE IF s.E = "reactive"
    THEN LET nper == vl \div nsurfs IN
         IF ~(nper > 0 /\ nper < 4) THEN Abort(s)
         ELSE IF ~isnew /\ s.bcn # nper THEN Abort(s)
         ELSE vortex_sheet_to_panel_strength(
                [s EXCEPT !.bcn = nper, !.bclen = ntot,
                          !.bc = [d \in 1..nper |-> [i \in 1..ntot |->
                                    IF i > neold THEN valin[nper * (i - neold - 1) + d]
                                    ELSE s.bc[d][i]]],
                          !.vslen = ntot,
                          !.vs = IF isnew THEN [i \in 1..ntot |-> ZeroStr]
                                 ELSE Resize(s.vs, ntot, ZeroStr),
                          !.pslen = IF isnew THEN @ ELSE ntot], ntot)
  ELSE s

\* Surfaces.h 145-175 and 393-423: velocities resized, counts set, centre found
FinishSizes(s, nntot, ntot) ==
  IF s.state = "aborted" THEN s
  ELSE LET s1 == [s EXCEPT !.ulen = nntot, !.pulen = ntot, !.n = nntot, !.np = ntot,
                           !.pu = Resize(@, ntot, ZeroVel)]
       IN IF s1.M = "bodybound" THEN set_geom_center(s1) ELSE s1

\* Surfaces.h 51-175
SurfacesCtor(xin, idxin, valin, E, M, hasB) ==
  LET s0 == EmptySurf(E, M, hasB)
      xl == Len(xin)
      vl == Len(valin)
      nsurfs == Len(idxin) \div Dimensions
      nnodes == xl \div Dimensions
  IN IF Len(idxin) % Dimensions # 0 THEN Abort(s0)
     ELSE IF nsurfs = 0 THEN [s0 EXCEPT !.uxlen = IF hasB THEN 0 ELSE -1]
     ELSE IF vl % nsurfs # 0 THEN Abort(s0)
     ELSE IF xl % Dimensions # 0 THEN Abort(s0)
     ELSE LET xs == [i \in 1..nnodes |-> NodeOf(xin, i - 1)]
              s1 == [s0 EXCEPT !.xlen = nnodes, !.x = xs,
                               !.uxlen = IF hasB THEN nnodes ELSE -1,
                               !.ux = IF hasB THEN xs ELSE @,
                               !.idx = idxin]
          IN IF \E i \in 1..Len(idxin) : idxin[i] >= nnodes THEN Abort(s1)
             ELSE LET s2 == compute_bases(s1, nsurfs, ZeroVec)
                  IN IF s2.state = "aborted" THEN s2
                     ELSE FinishSizes(StoreValues(s2, TRUE, valin, nsurfs, nsurfs),
                                      nnodes, nsurfs)

\* the test add_new makes of one entry of _idx before it stores nnold + _idx[i]
AddNewIdxIsBad(v, nnold, nnodes) == v >= nnold + nnodes

\* Surfaces.h 295-423
SurfacesAddNew(s, xin, idxin, valin, stray) ==
  LET nnold == s.n
      neold == s.np
      xl == Len(xin)
      vl == Len(valin)
      nsurfs == Len(idxin) \div Dimensions
      nnodes == xl \div Dimensions
  IN IF Len(idxin) % Dimensions # 0 THEN Abort(s)
     ELSE IF nsurfs = 0 THEN s
     ELSE IF vl % nsurfs # 0 THEN Abort(s)
     ELSE IF xl % Dimensions # 0 THEN Abort(s)
     ELSE LET xs == [i \in 1..(nnold + nnodes) |->
                       IF i > nnold THEN NodeOf(xin, i - nnold - 1)
                       ELSE Resize(s.x, nnold, ZeroVec)[i]]
              s1 == [s EXCEPT !.xlen = nnold + nnodes, !.x = xs,
                              !.uxlen = IF s.B THEN nnold + nnodes ELSE @,
                              !.ux = IF s.B
                                       THEN [i \in 1..(nnold + nnodes) |->
                                               IF i > nnold THEN xs[i]
                                               ELSE Resize(s.ux, nnold, ZeroVec)[i]]
                                       ELSE @,
                              !.idx = SubSeq(@, 1, 3 * neold) \o
                                      [i \in 1..Len(idxin) |-> nnold + idxin[i]]]
          IN IF \E i \in 1..Len(idxin) : AddNewIdxIsBad(idxin[i], nnold, nnodes)
               THEN Abort(s1)
             ELSE LET s2 == compute_bases(s1, neold + nsurfs, stray)
                  IN IF s2.state = "aborted" THEN s2
                     ELSE FinishSizes(StoreValues(s2, FALSE, valin, nsurfs, neold + nsurfs),
                                      nnold + nnodes, neold + nsurfs)

\* Surfaces.h 177
get_npanels(s) == s.np

\* ---- Surfaces<S>: strengths, transform, velocities ----
\* Surfaces.h 212-226; writing vs[0][i] beyond the end of vs is a write outside the vector
set_str(s, ioffset, in) ==
  IF Len(in) # s.vslen * 2 THEN Abort(s)
  ELSE IF ioffset # 0 THEN Abort(s)
  ELSE IF get_npanels(s) > s.vslen THEN Abort([s EXCEPT !.ub = TRUE])
  ELSE vortex_sheet_to_panel_strength(
         [s EXCEPT !.vs = [i \in 1..Len(@) |->
                             IF i <= get_npanels(s) THEN <<in[2 * i - 1], in[2 * i]>>
                             ELSE @[i]]],
         get_npanels(s))

\* Surfaces.h 472-485 (the base class call clears ElementBase::s, which Surfaces does not use)
zero_strengths(s) == [s EXCEPT !.vs = [i \in 1..Len(@) |-> ZeroStr]]

\* the rigid motion of the parent Body at time t: t quarter turns about the z axis
BodyTransform(t, v) ==
  CASE t % 4 = 0 -> v
    [] t % 4 = 1 -> <<FNeg(v[2]), v[1], v[3]>>
    [] t % 4 = 2 -> <<FNeg(v[1]), FNeg(v[2]), v[3]>>
    [] OTHER -> <<v[2], FNeg(v[1]), v[3]>>

\* ElementBase<S>::transform: a body-bound collection takes x from ux and the Body's motion
ElementBase_transform(s, t) ==
  IF s.B /\ s.M = "bodybound"
    THEN [s EXCEPT !.x = [i \in 1..Len(@) |-> BodyTransform(t, s.ux[i])]]
    ELSE s

\* Surfaces.h 664-688
transform(s, t) == compute_bases(ElementBase_transform(s, t), s.np, ZeroVec)

\* Surfaces.h 691-698
zero_vels(s) == [s EXCEPT !.pu = [i \in 1..Len(@) |-> ZeroVel]]

\* finalize_vels with the factor applied to the sum of freestream and velocity
FinalizeOne_scaled_sum(u, f) == PTimesFactor(PAdd(PConst(f), u))

\* Surfaces.h 705: _fs[d] + pu[d][i] * factor
FinalizeOne(u, f) == PAdd(PConst(f), PTimesFactor(u))

\* Surfaces.h 700-716
finalize_vels(s, fs) ==
  [s EXCEPT !.pu = [i \in 1..Len(@) |->
                      IF i <= get_npanels(s)
                        THEN [d \in 1..Dimensions |-> FinalizeOne(@[i][d], fs[d])]
                        ELSE @[i]]]

\* a velocity v added to panel i (from 1) through the reference get_vel() returns
AddToVel(s, i, v) ==
  [s EXCEPT !.pu[i] = [d \in 1..Dimensions |-> PAdd(@[d], PConst(v[d]))]]

\* Surfaces.h 782-818: ps is recomputed from vs, then seven values per panel:
\* the centre pushed dn = _offset * _vdelta along the normal, ps, _vdelta
represent_as_particles(s, offset, vdelta, stray) ==
  LET num_pts == get_npanels(s)
      s1 == vortex_sheet_to_panel_strength(s, num_pts)
      dn == FMul(offset, vdelta)
      node(i, k) == NodeAt(s, s.idx[3 * (i - 1) + k], stray)
      part(i) ==
        [j \in 1..7 |->
           IF j <= 3
             THEN FAdd(FMul(Q(1, 3), FAdd(FAdd(node(i, 1)[j], node(i, 2)[j]), node(i, 3)[j])),
                       FMul(dn, s1.b[i].norm[j]))
           ELSE IF j <= 6 THEN s1.ps[i][j - 3]
           ELSE vdelta]
  IN IF s1.state = "aborted" THEN [s |-> s1, px |-> <<>>]
     ELSE [s |-> s1,
           px |-> [k \in 1..(num_pts * 7) |-> part(((k - 1) \div 7) + 1)[((k - 1) % 7) + 1]]]

\* ---- RHS.h ----
\* tu[0][i]*e[0][i] + tu[1][i]*e[1][i] + tu[2][i]*e[2][i]
VelDot(tu, e) ==
  PAdd(PAdd(PScale(tu[1], e[1]), PScale(tu[2], e[2])), PScale(tu[3], e[3]))

\* the projection with the one-unknown case taken along tangent-1
RhsBasis_tangent_only(s, nunkn, i, j) ==
  IF nunkn = 1 THEN s.b[i].x1
  ELSE IF j = 0 THEN s.b[i].x1 ELSE IF j = 1 THEN s.b[i].x2 ELSE s.b[i].norm

\* RHS.h 76-94: the vector the velocity of panel i is projected on for unknown j (from 0)
RhsBasis(s, nunkn, i, j) ==
  IF nunkn = 1 THEN s.b[i].norm
  ELSE IF j = 0 THEN s.b[i].x1 ELSE IF j = 1 THEN s.b[i].x2 ELSE s.b[i].norm

\* RHS.h 40-108: ok is false when an assert at 61-65 fails
vels_to_rhs_panels(s) ==
  IF s.blen # s.pulen \/ ~(s.bcn > 0) THEN [ok |-> FALSE, rhs |-> <<>>]
  ELSE IF s.blen # s.bclen THEN [ok |-> FALSE, rhs |-> <<>>]
  ELSE LET ntarg == get_npanels(s)
           nunkn == s.bcn
       IN [ok |-> TRUE,
           rhs |-> [k \in 1..(nunkn * ntarg) |->
                     LET i == ((k - 1) \div nunkn) + 1
                         j == (k - 1) % nunkn
                     IN PAdd(PNeg(VelDot(s.pu[i], RhsBasis(s, nunkn, i, j))),
                             PConst(FNeg(s.bc[j + 1][i])))]]

\* RHS.h 20-38: one value-initialized entry per particle
vels_to_rhs_points(n) == [ok |-> TRUE, rhs |-> [k \in 1..n |-> PZero]]

\* a read outside a vector either returns what lies there or stops the process
Outcomes(old, new) ==
  IF new.state = "ok" /\ new.ub /\ ~(old.state = "ok" /\ old.ub)
    THEN {new, Abort(new)} ELSE {new}

\* ---- Kernels.h: values c1*sqrt(m1) + c2*sqrt(m2) + ..., kept exact ----
\* An accumulator holds a set of <<m, c>>: m a square-free integer, c a float
\* that is not zero; the set stands for the sum of c*sqrt(m).
RECURSIVE LargestSquare(_, _, _)
LargestSquare(n, k, best) ==
  IF k * k > n THEN best
  ELSE LargestSquare(n, k + 1, IF n % (k * k) = 0 THEN k ELSE best)

SZero == {}
SCoef(a, m) == IF \E p \in a : p[1] = m THEN (CHOOSE p \in a : p[1] = m)[2] ELSE R(0)
SAdd(a, b) ==
  LET sum == [m \in {p[1] : p \in a \cup b} |-> FAdd(SCoef(a, m), SCoef(b, m))]
  IN {<<m, sum[m]>> : m \in {k \in DOMAIN sum : sum[k] # R(0)}}
SScale(a, f) ==
  LET prod == [p \in a |-> FMul(p[2], f)]
  IN {<<p[1], prod[p]>> : p \in {q \in a : prod[q] # R(0)}}

\* 1.0 / (r2*std::sqrt(r2)) for r2 = p/q >= 0 in lowest terms: with p = kp*kp*mp
\* and q = kq*kq*mq it is q*kq*sqrt(mp*mq) / (p*kp*mp); for r2 = 0 it is 1.0/0.0
InvR3(r2) ==
  IF r2[1] = 0 THEN {<<1, Q(1, 0)>>}
  ELSE LET kp == LargestSquare(r2[1], 1, 1)
           mp == r2[1] \div (kp * kp)
           kq == LargestSquare(r2[2], 1, 1)
           mq == r2[2] \div (kq * kq)
       IN {<<mp * mq, Q(r2[2] * kq, r2[1] * kp * mp)>>}

\* the accumulators of one target: tu, tv, tw and the nine gradients tux..twz
ZeroAcc == [u |-> <<SZero, SZero, SZero>>, g |-> [j \in 1..9 |-> SZero]]

\* the three products with two of the signs exchanged
VortexCross_sign_slip(d, ss) ==
  <<FSub(FMul(d[3], ss[2]), FMul(d[2], ss[3])),
    FSub(FMul(d[3], ss[1]), FMul(d[1], ss[3])),
    FSub(FMul(d[2], ss[1]), FMul(d[1], ss[2]))>>

\* Kernels.h 51-53 (and 76-78, 127-129, 176-178): dxxw, dyxw, dzxw
VortexCross(d, ss) ==
  <<FSub(FMul(d[3], ss[2]), FMul(d[2], ss[3])),
    FSub(FMul(d[1], ss[3]), FMul(d[3], ss[1])),
    FSub(FMul(d[2], ss[1]), FMul(d[1], ss[2]))>>

\* dx*dx + dy*dy + dz*dz
DistSq(d) == FAdd(FAdd(FMul(d[1], d[1]), FMul(d[2], d[2])), FMul(d[3], d[3]))

\* *tu += r3*dxxw; *tv += r3*dyxw; *tw += r3*dzxw
AddVel(u, r3, w) == [j \in 1..3 |-> SAdd(u[j], SScale(r3, w[j]))]

\* Kernels.h 134-153 (and 183-202): the nine gradient accumulators in the order
\* tux, tvx, twx, tuy, tvy, twy, tuz, tvz, twz.  Entry 3*(c-1)+r is the derivative
\* along axis c of velocity component r: d[c]*(bbb*w[r]) plus the signed strength
\* component times r3 that lines 146-152 add off the diagonal.
GradStrength(ss) ==
  <<R(0), ss[3], FNeg(ss[2]),
    FNeg(ss[3]), R(0), ss[1],
    ss[2], FNeg(ss[1]), R(0)>>

AddGrad(g, d, ss, r2, r3, w) ==
  LET bbb == SScale(r3, FMul(R(-3), FInv(r2)))
  IN [j \in 1..9 |->
        SAdd(g[j], SAdd(SScale(SScale(bbb, w[((j - 1) % 3) + 1]), d[((j - 1) \div 3) + 1]),
                        SScale(r3, GradStrength(ss)[j])))]

\* Kernels.h 34-57
kernel_0v_0b(s, sr, ss, t, tr, acc) ==
  LET d == VSub(t, s)
      r2 == FAdd(FAdd(DistSq(d), FMul(sr, sr)), FMul(tr, tr))
  IN [acc EXCEPT !.u = AddVel(@, InvR3(r2), VortexCross(d, ss))]

\* kernel_0v_0p storing its products in place of adding them
kernel_0v_0p_overwrite(s, sr, ss, t, acc) ==
  LET d == VSub(t, s)
      r2 == FAdd(DistSq(d), FMul(sr, sr))
  IN [acc EXCEPT !.u = AddVel(ZeroAcc.u, InvR3(r2), VortexCross(d, ss))]

\* Kernels.h 60-82
kernel_0v_0p(s, sr, ss, t, acc) ==
  LET d == VSub(t, s)
      r2 == FAdd(DistSq(d), FMul(sr, sr))
  IN [acc EXCEPT !.u = AddVel(@, InvR3(r2), VortexCross(d, ss))]

\* Kernels.h 85-104: ss is a scalar source strength
kernel_0s_0p(s, sr, ss, t, acc) ==
  LET d == VSub(t, s)
      r2 == FAdd(DistSq(d), FMul(sr, sr))
  IN [acc EXCEPT !.u = AddVel(@, SScale(InvR3(r2), ss), d)]

\* Kernels.h 107-154
kernel_0v_0bg(s, sr, ss, t, tr, acc) ==
  LET d == VSub(t, s)
      r2 == FAdd(FAdd(DistSq(d), FMul(sr, sr)), FMul(tr, tr))
      r3 == InvR3(r2)
      w == VortexCross(d, ss)
  IN [acc EXCEPT !.u = AddVel(@, r3, w), !.g = AddGrad(@, d, ss, r2, r3, w)]

\* Kernels.h 157-203
kernel_0v_0pg(s, sr, ss, t, acc) ==
  LET d == VSub(t, s)
      r2 == FAdd(DistSq(d), FMul(sr, sr))
      r3 == InvR3(r2)
      w == VortexCross(d, ss)
  IN [acc EXCEPT !.u = AddVel(@, r3, w), !.g = AddGrad(@, d, ss, r2, r3, w)]

\* the four source points with the last one weighted toward the second vertex again
PanelSource_repeat(v0, v1, v2, k) ==
  [j \in 1..3 |->
     IF k = 1 THEN FMul(FAdd(FAdd(v0[j], v1[j]), v2[j]), Q(1, 3))
     ELSE IF k = 2 THEN FMul(FAdd(FAdd(FMul(R(4), v0[j]), v1[j]), v2[j]), Q(1, 6))
     ELSE FMul(FAdd(FAdd(v0[j], FMul(R(4), v1[j])), v2[j]), Q(1, 6))]

\* Kernels.h 228-230, 241-243, 252-254, 263-265: source point k = 1..4 of the panel
PanelSource(v0, v1, v2, k) ==
  [j \in 1..3 |->
     IF k = 1 THEN FMul(FAdd(FAdd(v0[j], v1[j]), v2[j]), Q(1, 3))
     ELSE IF k = 2 THEN FMul(FAdd(FAdd(FMul(R(4), v0[j]), v1[j]), v2[j]), Q(1, 6))
     ELSE IF k = 3 THEN FMul(FAdd(FAdd(v0[j], FMul(R(4), v1[j])), v2[j]), Q(1, 6))
     ELSE FMul(FAdd(FAdd(v0[j], v1[j]), FMul(R(4), v2[j])), Q(1, 6))]

\* Kernels.h 221-223: strx, stry, strz
QuarterStr(ss) == VScale(ss, Q(1, 4))

\* Kernels.h 212-271
kernel_2_0p(v0, v1, v2, ss, t, acc) ==
  LET str == QuarterStr(ss)
      RECURSIVE after(_)
      after(k) ==
        IF k = 0 THEN acc
        ELSE kernel_0v_0p(PanelSource(v0, v1, v2, k), R(0), str, t, after(k - 1))
  IN after(4)

\* Kernels.h 275-332: ss is a scalar source strength
kernel_2s_0p(v0, v1, v2, ss, t, acc) ==
  LET strx == FMul(Q(1, 4), ss)
      RECURSIVE after(_)
      after(k) ==
        IF k = 0 THEN acc
        ELSE kernel_0s_0p(PanelSource(v0, v1, v2, k), R(0), strx, t, after(k - 1))
  IN after(4)

\* Kernels.h 341-400
kernel_2_0b(v0, v1, v2, ss, t, tr, acc) ==
  LET str == QuarterStr(ss)
      RECURSIVE after(_)
      after(k) ==
        IF k = 0 THEN acc
        ELSE kernel_0v_0b(PanelSource(v0, v1, v2, k), R(0), str, t, tr, after(k - 1))
  IN after(4)

\* Kernels.h 409-475
kernel_2_0bg(v0, v1, v2, ss, t, tr, acc) ==
  LET str == QuarterStr(ss)
      RECURSIVE after(_)
      after(k) ==
        IF k = 0 THEN acc
        ELSE kernel_0v_0bg(PanelSource(v0, v1, v2, k), R(0), str, t, tr, after(k - 1))
  IN after(4)

\* Kernels.h 484-550
kernel_2_0pg(v0, v1, v2, ss, t, acc) ==
  LET str == QuarterStr(ss)
      RECURSIVE after(_)
      after(k) ==
        IF k = 0 THEN acc
        ELSE kernel_0v_0pg(PanelSource(v0, v1, v2, k), R(0), str, t, after(k - 1))
  IN after(4)

\* ---- what the callers hand to Surfaces ----
\* the nodes (0,0,0), (3,0,0), (0,4,0), flat
NodeFloats == <<R(0), R(0), R(0), R(3), R(0), R(0), R(0), R(4), R(0)>>
XOfLen(k) == [i \in 1..k |-> NodeFloats[((i - 1) % Len(NodeFloats)) + 1]]
ValOfLen(k) == [i \in 1..k |-> R(i)]
IdxArrays == UNION {[1..k -> 0..MaxIdxVal] : k \in 0..MaxIdxLen}
XArrays == {XOfLen(k) : k \in 0..MaxXLen}
ValArrays == {ValOfLen(k) : k \in 0..MaxValLen}

\* what a read outside the position vector may find
Stray == {ZeroVec, <<R(0), R(4), R(0)>>}

\* one triangle on three nodes: two orientations, a zero-length edge, a zero height
GeomXs == {XOfLen(0), XOfLen(3 * Dimensions)}
GeomIdxs == {<<>>, <<0, 1, 2>>, <<1, 2, 0>>, <<0, 0, 1>>, <<0, 1, 1>>}
GeomVals == {ValOfLen(k) : k \in 0..Dimensions}
GeomBodies == {<<"fixed", FALSE>>, <<"bodybound", TRUE>>}
StrIn(k) == [i \in 1..k |-> R(4 + i)]
StrArrays == {StrIn(2 * k) : k \in 0..MaxPanels}
Times == 0..3
RawVels == {<<R(1), R(2), R(3)>>}
Freestreams == {ZeroVec, <<R(1), R(0), R(2)>>}
PxOffsets == {R(0), R(2)}
PxVdeltas == {R(1), R(3)}

\* the caller constructs the collection
SurfConstruct(xin, idxin, valin, E, M, hasB) ==
  /\ surf.state = "none"
  /\ surf' \in Outcomes(surf, SurfacesCtor(xin, idxin, valin, E, M, hasB))
  /\ rhs' = NoRhs
  /\ px' = NoPx
  /\ UNCHANGED <<simvars, kern>>

\* the caller appends nodes and panels to the collection
SurfAddNew(xin, idxin, valin) ==
  /\ surf.state = "ok"
  /\ Len(surf.idx) + Len(idxin) <= Dimensions * MaxPanels
  /\ \E stray \in Stray :
       surf' \in Outcomes(surf, SurfacesAddNew(surf, xin, idxin, valin, stray))
  /\ rhs' = NoRhs
  /\ px' = NoPx
  /\ UNCHANGED <<simvars, kern>>

\* the solver hands the new strengths to the collection
SurfSetStr(ioffset, in) ==
  /\ surf.state = "ok"
  /\ surf' = set_str(surf, ioffset, in)
  /\ rhs' = NoRhs
  /\ px' = NoPx
  /\ UNCHANGED <<simvars, kern>>

SurfZeroStrengths ==
  /\ surf.state = "ok"
  /\ surf' = zero_strengths(surf)
  /\ rhs' = NoRhs
  /\ px' = NoPx
  /\ UNCHANGED <<simvars, kern>>

SurfTransform(t) ==
  /\ surf.state = "ok"
  /\ surf' = transform(surf, t)
  /\ rhs' = NoRhs
  /\ px' = NoPx
  /\ UNCHANGED <<simvars, kern>>

SurfZeroVels ==
  /\ surf.state = "ok"
  /\ surf' = zero_vels(surf)
  /\ rhs' = NoRhs
  /\ px' = NoPx
  /\ UNCHANGED <<simvars, kern>>

\* the largest number of finalize_vels calls any panel velocity has been through
VelDegree(s) ==
  IF s.pu = <<>> THEN 0
  ELSE (CHOOSE m \in {Len(s.pu[i][1]) : i \in 1..Len(s.pu)} :
          \A i \in 1..Len(s.pu) : Len(s.pu[i][1]) <= m) - 1

\* an influence calculation adds a raw velocity to one panel
SurfAddToVel(i, v) ==
  /\ surf.state = "ok"
  /\ i \in 1..Len(surf.pu)
  /\ VelDegree(surf) = 0
  /\ surf.pu[i][1][1][1] < MaxAccum
  /\ surf' = AddToVel(surf, i, v)
  /\ rhs' = NoRhs
  /\ px' = NoPx
  /\ UNCHANGED <<simvars, kern>>

SurfFinalizeVels(fs) ==
  /\ surf.state = "ok"
  /\ VelDegree(surf) < MaxFinalize
  /\ surf' = finalize_vels(surf, fs)
  /\ rhs' = NoRhs
  /\ px' = NoPx
  /\ UNCHANGED <<simvars, kern>>

\* some panel of s names a node that x does not hold
IdxOutside(s) == \E i \in 1..(3 * get_npanels(s)) : s.idx[i] >= s.xlen

\* Diffusion asks for the particle version of the panels; a read outside x
\* either returns what lies there or stops the process
SurfRepresentAsParticles(offset, vdelta) ==
  /\ surf.state = "ok"
  /\ \E stray \in Stray :
       LET r == represent_as_particles(surf, offset, vdelta, stray) IN
         \/ /\ surf' = r.s
            /\ px' = IF r.s.state = "ok"
                       THEN [op |-> "particles", offset |-> offset, vdelta |-> vdelta,
                             val |-> r.px]
                       ELSE NoPx
         \/ /\ r.s.state = "ok" /\ IdxOutside(surf)
            /\ surf' = Abort([r.s EXCEPT !.ub = TRUE])
            /\ px' = NoPx
  /\ rhs' = NoRhs
  /\ UNCHANGED <<simvars, kern>>

\* RHS.h 115: RHSVisitor applied to the Surfaces collection
RhsVisitPanels ==
  /\ surf.state = "ok"
  /\ LET r == vels_to_rhs_panels(surf) IN
       IF r.ok
         THEN /\ rhs' = [op |-> "panels", E |-> surf.E, val |-> r.rhs]
              /\ UNCHANGED surf
         ELSE /\ surf' = Abort(surf)
              /\ UNCHANGED rhs
  /\ UNCHANGED <<simvars, px, kern>>

\* RHS.h 114: RHSVisitor applied to a Points collection of n particles and category E
RhsVisitPoints(n, E) ==
  /\ surf.state # "aborted"
  /\ rhs' = [op |-> "points", E |-> E, val |-> vels_to_rhs_points(n).rhs]
  /\ UNCHANGED <<simvars, surf, px, kern>>

\* ---- one target and the kernel calls that accumulate into it ----
PointVortexKernels == {"kernel_0v_0b", "kernel_0v_0p", "kernel_0v_0bg", "kernel_0v_0pg"}
PanelVortexKernels == {"kernel_2_0b", "kernel_2_0p", "kernel_2_0bg", "kernel_2_0pg"}
BlobKernels == {"kernel_0v_0b", "kernel_0v_0bg", "kernel_2_0b", "kernel_2_0bg"}
KernelNames == PointVortexKernels \cup PanelVortexKernels \cup {"kernel_0s_0p", "kernel_2s_0p"}

\* the target at the origin or at (0,0,1); sources 1.0 apart on the x axis
KTargets == {ZeroVec, <<R(0), R(0), R(1)>>}
KSources == {<<Q(-1, 2), R(0), R(0)>>, <<Q(1, 2), R(0), R(0)>>}
KRadii == {R(0), Q(1, 20)}
KPanelTargetRadii == {R(0), Q(1, 2)}
KStrengths ==
  {<<R(1), R(0), R(0)>>, <<R(-1), R(0), R(0)>>, <<R(0), R(0), R(1)>>, <<R(0), R(0), R(-1)>>,
   <<Q(3, 5), Q(4, 5), R(0)>>, <<Q(-3, 5), Q(-4, 5), R(0)>>}
KPanelStrengths == {<<R(1), R(0), R(0)>>, <<R(0), R(0), R(1)>>, <<Q(3, 5), Q(4, 5), R(0)>>}
KScalars == {R(1), R(-1)}

\* the panel on (6,0,0), (0,12,0), (0,0,6) with its vertices in every order
KTriangle == <<<<R(6), R(0), R(0)>>, <<R(0), R(12), R(0)>>, <<R(0), R(0), R(6)>>>>
Perms3 == {p \in [1..3 -> 1..3] : \A i, j \in 1..3 : i # j => p[i] # p[j]}
KPanels == {[k \in 1..3 |-> KTriangle[p[k]]] : p \in Perms3}

\* the call of the point kernel named k
ApplyPointKernel(k, s, sr, ss, t, tr, acc) ==
  CASE k = "kernel_0v_0b" -> kernel_0v_0b(s, sr, ss, t, tr, acc)
    [] k = "kernel_0v_0p" -> kernel_0v_0p(s, sr, ss, t, acc)
    [] k = "kernel_0v_0bg" -> kernel_0v_0bg(s, sr, ss, t, tr, acc)
    [] k = "kernel_0v_0pg" -> kernel_0v_0pg(s, sr, ss, t, acc)
    [] OTHER -> kernel_0s_0p(s, sr, ss, t, acc)

\* the call of the panel kernel named k
ApplyPanelKernel(k, v, ss, t, tr, acc) ==
  CASE k = "kernel_2_0b" -> kernel_2_0b(v[1], v[2], v[3], ss, t, tr, acc)
    [] k = "kernel_2_0p" -> kernel_2_0p(v[1], v[2], v[3], ss, t, acc)
    [] k = "kernel_2_0bg" -> kernel_2_0bg(v[1], v[2], v[3], ss, t, tr, acc)
    [] k = "kernel_2_0pg" -> kernel_2_0pg(v[1], v[2], v[3], ss, t, acc)
    [] OTHER -> kernel_2s_0p(v[1], v[2], v[3], ss, t, acc)

\* an influence calculation starts on one target: its accumulators are zeroed
KernZero(k, t, tr) ==
  /\ \/ tr = R(0)
     \/ k \in BlobKernels \cap PointVortexKernels /\ tr \in KRadii
     \/ k \in BlobKernels \cap PanelVortexKernels /\ tr \in KPanelTargetRadii
  /\ kern' = [op |-> k, t |-> t, tr |-> tr, acc |-> ZeroAcc, calls |-> <<>>]
  /\ UNCHANGED <<simvars, surf, rhs, px>>

\* one call of a point kernel; kernel_0s_0p takes a scalar strength
KernPoint(s, sr, ss) ==
  /\ kern.op \in PointVortexKernels \cup {"kernel_0s_0p"}
  /\ (kern.op = "kernel_0s_0p") = (ss \in KScalars)
  /\ Len(kern.calls) < MaxCalls
  /\ kern' = [kern EXCEPT
                !.acc = ApplyPointKernel(kern.op, s, sr, ss, kern.t, kern.tr, @),
                !.calls = Append(@, [s |-> s, sr |-> sr, ss |-> ss])]
  /\ UNCHANGED <<simvars, surf, rhs, px>>

\* one call of a panel kernel; kernel_2s_0p takes a scalar strength
KernPanel(v, ss) ==
  /\ kern.op \in PanelVortexKernels \cup {"kernel_2s_0p"}
  /\ (kern.op = "kernel_2s_0p") = (ss \in KScalars)
  /\ Len(kern.calls) < MaxCalls
  /\ kern' = [kern EXCEPT
                !.acc = ApplyPanelKernel(kern.op, v, ss, kern.t, kern.tr, @),
                !.calls = Append(@, [s |-> v, sr |-> R(0), ss |-> ss])]
  /\ UNCHANGED <<simvars, surf, rhs, px>>

AddLens == {k * ParticleStride : k \in 0..MaxParts}

Next ==
  \/ AsyncStepLaunch
  \/ AsyncStepAssign
  \/ TestForNewResults
  \/ ResetEnter
  \/ ResetFinish
  \/ \E len \in AddLens : AddParticles(len)
  \/ GetNparts
  \/ SetInitialized
  \/ \E v \in 1..MaxDt : SetDt(v)
  \/ \E t \in TaskIds : StepZero(t)
  \/ \E t \in TaskIds : StepAccum(t)
  \/ \E t \in TaskIds : StepLoop(t)
  \/ \E t \in TaskIds : StepFinalize(t)
  \/ \E t \in TaskIds : StepMove(t)
  \/ \E t \in TaskIds : StepReadTime(t)
  \/ \E t \in TaskIds : StepWriteTime(t)

Spec == Init /\ [][Next]_vars

\* ---- the Surfaces object on its own ----
SurfInit == Init /\ bdry = 0 /\ fldpt = 0

SurfNext ==
  \/ \E xin \in XArrays, idxin \in IdxArrays, valin \in ValArrays,
        E \in ElemTypes, M \in MoveTypes, hasB \in BOOLEAN :
       SurfConstruct(xin, idxin, valin, E, M, hasB)
  \/ \E xin \in XArrays, idxin \in IdxArrays, valin \in ValArrays :
       SurfAddNew(xin, idxin, valin)

SurfSpec == SurfInit /\ [][SurfNext]_vars

\* ---- the geometry and the strengths of one small collection ----
GeomConstruct ==
  \E xin \in GeomXs, idxin \in GeomIdxs, valin \in GeomVals,
     E \in ElemTypes, mb \in GeomBodies :
    SurfConstruct(xin, idxin, valin, E, mb[1], mb[2])

GeomAddNew ==
  \E xin \in GeomXs, idxin \in GeomIdxs, valin \in GeomVals :
    SurfAddNew(xin, idxin, valin)

GeomNext ==
  \/ GeomConstruct
  \/ GeomAddNew
  \/ \E ioffset \in {0, 1}, in \in StrArrays : SurfSetStr(ioffset, in)
  \/ SurfZeroStrengths
  \/ \E t \in Times : SurfTransform(t)

GeomSpec == SurfInit /\ [][GeomNext]_vars

\* ---- the velocities of one small collection and the right-hand side ----
VelIdxs == {<<>>, <<0, 1, 2>>, <<0, 0, 1>>}

VelConstruct ==
  \E xin \in GeomXs, idxin \in VelIdxs, valin \in GeomVals, E \in ElemTypes :
    SurfConstruct(xin, idxin, valin, E, "fixed", FALSE)

VelAddNew ==
  \E xin \in GeomXs, idxin \in VelIdxs, valin \in GeomVals :
    SurfAddNew(xin, idxin, valin)

VelNext ==
  \/ VelConstruct
  \/ VelAddNew
  \/ SurfZeroVels
  \/ \E i \in 1..MaxPanels, v \in RawVels : SurfAddToVel(i, v)
  \/ \E fs \in Freestreams : SurfFinalizeVels(fs)
  \/ RhsVisitPanels
  \/ \E n \in 0..MaxParts, E \in ElemTypes : RhsVisitPoints(n, E)

VelSpec == SurfInit /\ [][VelNext]_vars

\* ---- the particle version of one small collection ----
PartNext ==
  \/ VelConstruct
  \/ VelAddNew
  \/ SurfZeroStrengths
  \/ \E offset \in PxOffsets, vdelta \in PxVdeltas : SurfRepresentAsParticles(offset, vdelta)

PartSpec == SurfInit /\ [][PartNext]_vars

\* ---- the caller's parameters and the particles it adds ----
\* two particles: position, strength, and a radius that add_particles replaces
AddVecs ==
  {<<>>,
   <<1, 0, 0, 0, 0, 1, 9>>,
   <<1, 0, 0, 0, 0, 1, 9, 0, 1, 0, 1, 0, 0, 0>>}

ParamNext ==
  \/ AsyncStepLaunch
  \/ AsyncStepAssign
  \/ TestForNewResults
  \/ ResetEnter
  \/ ResetFinish
  \/ \E invec \in AddVecs : AddParticlesVec(invec)
  \/ GetNparts
  \/ \E v \in 1..MaxDt : SetDt(v)
  \/ \E v \in 1..MaxRe : SetRe(v)
  \/ \E v \in 0..MaxFs : SetFs(v)
  \/ \E t \in TaskIds : StepTask(t)

ParamSpec == SurfInit /\ [][ParamNext]_vars

\* ---- the kernels on their own ----
KernNext ==
  \/ \E k \in KernelNames, t \in KTargets, tr \in KRadii \cup KPanelTargetRadii :
       KernZero(k, t, tr)
  \/ \E s \in KSources, sr \in KRadii, ss \in KStrengths \cup KScalars : KernPoint(s, sr, ss)
  \/ \E v \in KPanels, ss \in KPanelStrengths \cup KScalars : KernPanel(v, ss)

KernSpec == SurfInit /\ [][KernNext]_vars

\* the scheduler runs every started thread
FairSpec == Spec /\ \A t \in TaskIds : WF_vars(StepTask(t))

\* ======================= claims about the stepper =======================

RunningTasks == {t \in TaskIds : TaskRunning(t)}

\* C1: at most one execution of step() is running at any moment.
C1_AtMostOneStepRunning == Cardinality(RunningTasks) <= 1

\* C2: async_step called while step_has_started is true launches no new step
\* and changes no state.
C2_SecondAsyncStepIsNoOp ==
  [][(callerpc = "ready" /\ step_has_started /\ callerpc' = "async_step")
       => UNCHANGED <<tasks, time, flagvars, stepfuture>>]_vars

\* C3: test_for_new_results never blocks; it returns false and changes nothing
\* while the launched step has not completed, returns true and moves the stepper
\* to idle on the first call after completion, and returns true without any
\* change when no step has been launched.
C3_Polled == ret'.op = "test_for_new_results"
C3_Post ==
  LET launched == step_has_started
      completed == stepfuture # 0 /\ tasks[stepfuture].pc > Len(Prog)
      same == UNCHANGED <<collvars, dt, time, flagvars, stepfuture>>
  IN /\ ~launched => C3_Polled /\ ret'.val = TRUE /\ same
     /\ (launched /\ ~completed) => C3_Polled /\ ret'.val = FALSE /\ same
     /\ (launched /\ completed) =>
          /\ C3_Polled /\ ret'.val = TRUE
          /\ stepfuture' = 0 /\ ~step_has_started' /\ step_is_finished'
          /\ UNCHANGED <<collvars, dt, time, sim_is_initialized>>
C3_TestForNewResultsNonBlocking ==
  /\ [](callerpc = "ready" => ENABLED TestForNewResults)
  /\ [][TestForNewResults => C3_Post]_vars

\* C3 witness: a poll has returned true after consuming a completed step.
C3_Witness ==
  /\ ret.op = "test_for_new_results" /\ ret.val = TRUE
  /\ nconsumed > 0 /\ step_is_finished /\ ~step_has_started /\ stepfuture = 0

\* C4: while a step is in flight reset() modifies none of time,
\* sim_is_initialized, step_has_started, step_is_finished; when reset() returns
\* no step task is running, time is 0 and the stepper is idle; the step's
\* "time += dt" never lands after the reset's "time = 0".
C4_TimeWrittenByTask ==
  \E t \in TaskIds : TaskRunning(t) /\ Cur(t).op = "wrtime" /\ tasks'[t].pc > tasks[t].pc
C4_ResetWaitsForStep ==
  /\ [][callerpc = "reset" =>
          /\ SomeTaskRunning =>
               /\ callerpc' = "reset"
               /\ UNCHANGED flagvars
               /\ time' # time => C4_TimeWrittenByTask
          /\ callerpc' = "ready" =>
               /\ ~SomeTaskRunning /\ RunningTasks' = {}
               /\ time' = 0 /\ stepfuture' = 0
               /\ ~sim_is_initialized' /\ ~step_has_started' /\ ~step_is_finished']_vars
  /\ [](nstarted = 0 => time = 0 /\ RunningTasks = {})

\* C4 witness: reset() is waiting on a step that has loaded time and not yet stored it.
C4_Witness ==
  /\ callerpc = "reset" /\ stepfuture # 0
  /\ TaskRunning(stepfuture) /\ Cur(stepfuture).op = "wrtime"
  /\ tasks[stepfuture].treg > 0

\* C5: while a step is in flight no caller operation reads or writes the
\* collections (add_particles writes vort, get_nparts reads it).
C5_CollectionsOwnedByStep ==
  [][(vort' # vort \/ (ret' # ret /\ ret'.op = "get_nparts")) => ~SomeTaskRunning]_vars

\* C6: every execution of step() acts in the order of its six phases, and inside
\* a target's block in the order zero, accumulate (vort sources before bdry
\* sources), finalize; every bdry and fldpt block is complete before the first move.
IsKind(c, k) == c[1] = k
PhaseOf(e) ==
  CASE e.op = "move" -> 5
    [] e.op \in {"rdtime", "wrtime"} -> 6
    [] IsKind(e.targ, "bdry") /\ e.op = "acc" /\ IsKind(e.src, "bdry") -> 2
    [] IsKind(e.targ, "bdry") -> 1
    [] IsKind(e.targ, "vort") -> 3
    [] OTHER -> 4
RankOf(e) ==
  CASE e.op = "zero" -> 0
    [] e.op = "acc" /\ IsKind(e.src, "vort") -> 1
    [] e.op = "acc" -> 2
    [] OTHER -> 3
LogHas(L, o, s, t) == \E i \in 1..Len(L) : L[i] = [op |-> o, src |-> s, targ |-> t]
MoveStarted(L) == \E i \in 1..Len(L) : L[i].op = "move"
C6_LogInOrder(L) ==
  /\ \A i, j \in 1..Len(L) : i < j =>
       /\ PhaseOf(L[i]) <= PhaseOf(L[j])
       /\ (L[i].targ = L[j].targ /\ PhaseOf(L[i]) = PhaseOf(L[j]) /\ PhaseOf(L[i]) \in {1, 3, 4})
            => RankOf(L[i]) <= RankOf(L[j])
       /\ L[i] # L[j]
  /\ \A i \in 1..Len(L) : L[i].op = "fin" => ~IsKind(L[i].targ, "bdry")
  /\ MoveStarted(L) =>
       /\ \A b \in 1..bdry :
            /\ LogHas(L, "zero", NoColl, B(b))
            /\ \A b2 \in 1..bdry : LogHas(L, "acc", B(b2), B(b))
       /\ \A f \in 1..fldpt :
            /\ LogHas(L, "zero", NoColl, F(f))
            /\ \A b \in 1..bdry : LogHas(L, "acc", B(b), F(f))
            /\ LogHas(L, "fin", NoColl, F(f))
       /\ \A v \in 1..MaxVort :
            LogHas(L, "zero", NoColl, V(v)) =>
              /\ LogHas(L, "acc", V(v), V(v))
              /\ \A b \in 1..bdry : LogHas(L, "acc", B(b), V(v))
              /\ LogHas(L, "fin", NoColl, V(v))
  /\ (L # <<>> /\ L[Len(L)].op = "wrtime") =>
       /\ \A b \in 1..bdry : LogHas(L, "move", NoColl, B(b))
       /\ \A f \in 1..fldpt : LogHas(L, "move", NoColl, F(f))
       /\ Len(L) >= 2 /\ L[Len(L) - 1].op = "rdtime"
C6_PhasesInOrder == \A t \in TaskIds : C6_LogInOrder(tasks[t].log)

\* C6 witness: a step over one vort, one bdry and one fldpt collection has run every statement.
C6_Witness ==
  \E t \in TaskIds :
    /\ TaskDone(t) /\ bdry >= 1 /\ fldpt >= 1
    /\ Len(tasks[t].log) = Len(Prog) - MaxVort

\* C7: time is changed only by the last action of step() and by reset(); after
\* k steps each launched by async_step and consumed by test_for_new_results,
\* with dt unchanged, time equals k*dt.
C7_TimeIsStepsTimesDt ==
  /\ []((callerpc = "ready" /\ nstarted = nconsumed /\ dtsteady) => time = nconsumed * dt)
  /\ [][time' # time =>
          \/ callerpc = "reset" /\ callerpc' = "ready" /\ time' = 0
          \/ \E t \in TaskIds :
               /\ TaskRunning(t) /\ Cur(t).op = "wrtime"
               /\ tasks[t].pc = Len(Prog) /\ tasks'[t].pc = Len(Prog) + 1]_vars

\* C7 witness: two steps launched and consumed one after the other at dt = 2 units.
C7_Witness ==
  /\ callerpc = "ready" /\ nstarted = 2 /\ nconsumed = 2 /\ dtsteady
  /\ dt = 2 /\ time = 4

\* C8: a launched step is never cancelled or restarted, under fair scheduling it
\* runs to the end of step(), and a test_for_new_results call made then returns
\* true and leaves the stepper idle.
C8_StepRunsToCompletion ==
  /\ \A t \in TaskIds : TaskRunning(t) ~> TaskDone(t)
  /\ [][\A t \in TaskIds : tasks'[t].pc >= tasks[t].pc]_vars
  /\ []((callerpc = "ready" /\ step_has_started /\ stepfuture # 0 /\ TaskDone(stepfuture))
          => ENABLED (TestForNewResults /\ ret'.val = TRUE /\ ~step_has_started'
                        /\ stepfuture' = 0))

\* C8 witness: the step held by stepfuture has stored time and awaits the poll.
C8_Witness ==
  /\ callerpc = "ready" /\ step_has_started /\ stepfuture # 0
  /\ TaskDone(stepfuture)
  /\ tasks[stepfuture].log # <<>>
  /\ tasks[stepfuture].log[Len(tasks[stepfuture].log)].op = "wrtime"

\* ======================= claims about Surfaces =======================

\* what C9 calls a bad construction input
BadCtorInput(xl, idxin, vl, E) ==
  LET nsurfs == Len(idxin) \div Dimensions
      nnodes == xl \div Dimensions
  IN \/ Len(idxin) % Dimensions # 0
     \/ xl % Dimensions # 0
     \/ E = "active" /\ vl # 2 * nsurfs
     \/ E = "reactive" /\ vl \notin {nsurfs, 2 * nsurfs, 3 * nsurfs}
     \/ \E i \in 1..Len(idxin) : idxin[i] >= nnodes

\* C9: construction fails, and yields no collection, for every input whose index
\* or position array length is not a multiple of 3, whose value array length is
\* not the expected multiple of the panel count, or that holds a panel index >=
\* the node count, an empty index array included.
C9_BadInputRejected ==
  [][surf.state = "none" =>
       \A xl \in 0..MaxXLen, idxin \in IdxArrays, vl \in 0..MaxValLen,
          E \in ElemTypes, M \in MoveTypes, hasB \in BOOLEAN :
         (BadCtorInput(xl, idxin, vl, E) /\
            SurfConstruct(XOfLen(xl), idxin, ValOfLen(vl), E, M, hasB))
           => surf'.state = "aborted"]_vars

\* C10: after a successful construction and any number of successful add_new
\* calls every entry of the index table is < the node count n and the table
\* holds 3 * np entries.
C10_IndicesInRange ==
  surf.state = "ok" =>
    /\ \A i \in 1..Len(surf.idx) : surf.idx[i] < surf.n
    /\ Len(surf.idx) = 3 * get_npanels(surf)

\* the arrays of a collection that C11 lists
Contents(s) ==
  [n |-> s.n, np |-> s.np, x |-> s.x, idx |-> s.idx, b |-> s.b, area |-> s.area,
   bc |-> s.bc, vs |-> s.vs, ps |-> s.ps]

\* what C11 calls an input add_new rejects
BadAddNewInput(s, xl, idxin, vl) ==
  LET nsurfs == Len(idxin) \div Dimensions
      nnodes == xl \div Dimensions
  IN \/ Len(idxin) % Dimensions # 0
     \/ nsurfs > 0 /\ xl % Dimensions # 0
     \/ nsurfs > 0 /\ vl % nsurfs # 0
     \/ nsurfs > 0 /\ s.E = "active" /\ vl # 2 * nsurfs
     \/ \E i \in 1..Len(idxin) : idxin[i] >= s.n + nnodes
     \/ nsurfs > 0 /\ s.E = "reactive" /\ vl \div nsurfs # s.bcn

\* C11: an add_new whose input is rejected (bad stride, index out of range, or a
\* boundary-condition component count other than the collection's) ends only
\* that call: the process goes on, and node count, positions, panel count, index
\* table, bases, areas, boundary conditions and strengths are as before the call.
C11_AddNewFailureIsAtomic ==
  [][surf.state = "ok" =>
       \A xl \in 0..MaxXLen, idxin \in IdxArrays, vl \in 0..MaxValLen :
         (BadAddNewInput(surf, xl, idxin, vl) /\
            SurfAddNew(XOfLen(xl), idxin, ValOfLen(vl)))
           => (surf'.state = "ok" /\ Contents(surf') = Contents(surf))]_vars

\* C12: a reactive collection has 1, 2 or 3 boundary-condition components from
\* construction on, each of length np; add_new never changes the count and
\* rejects a value array that implies another count; a collection constructed
\* with zero panels included.
C12_BcComponentsFixed ==
  /\ []((surf.state = "ok" /\ surf.E = "reactive") =>
          /\ surf.bcn \in 1..3 /\ Len(surf.bc) = surf.bcn
          /\ \A d \in 1..surf.bcn : Len(surf.bc[d]) = surf.np)
  /\ [][(surf.state = "ok" /\ surf.E = "reactive" /\ surf'.state = "ok")
          => surf'.bcn = surf.bcn]_vars
  /\ [][(surf.state = "ok" /\ surf.E = "reactive") =>
          \A xl \in 0..MaxXLen, idxin \in IdxArrays, vl \in 0..MaxValLen :
            (/\ Len(idxin) >= Dimensions /\ Len(idxin) % Dimensions = 0
             /\ vl % (Len(idxin) \div Dimensions) = 0
             /\ vl \div (Len(idxin) \div Dimensions) # surf.bcn
             /\ SurfAddNew(XOfLen(xl), idxin, ValOfLen(vl)))
              => surf'.state = "aborted"]_vars

\* ======================= claims about geometry and strengths =======================

\* C13: in an active or reactive collection ps[d][i] equals
\* (vs[0][i]*x1[d][i] + vs[1][i]*x2[d][i]) * area[i] for every panel i and
\* d = 0,1,2 after construction, add_new, set_str, zero_strengths and transform.
C13_PanelStrengthCurrent ==
  (surf.state = "ok" /\ surf.E \in {"active", "reactive"}) =>
    /\ surf.pslen = get_npanels(surf)
    /\ \A i \in 1..get_npanels(surf) :
         surf.ps[i] = PanelStrength(surf.vs[i], surf.b[i], surf.area[i])

\* the step is a transform(t) that moved a node
TransformMovedNodes ==
  /\ surf.state = "ok" /\ surf'.state = "ok" /\ ~surf.ub
  /\ \E t \in Times : SurfTransform(t)
  /\ surf'.x # surf.x

\* C14: after a transform(time) that changed the node positions every panel's
\* tangent-1, tangent-2, normal and area are those the two-edge construction
\* gives on the transformed positions.
C14_TransformRecomputesBases ==
  [][TransformMovedNodes =>
       \A i \in 1..get_npanels(surf') :
         /\ surf'.b[i] = PanelGeom(surf', i, ZeroVec).b
         /\ surf'.area[i] = PanelGeom(surf', i, ZeroVec).area]_vars

\* the basis and area of the first k panels
Geometry(s, k) == [i \in 1..k |-> [b |-> s.b[i], area |-> s.area[i]]]

\* C15: compute_bases(n) writes basis and area only for panels from the
\* watermark b[0][0].size() on, also when the nodes have moved since; a second
\* compute_bases(n) changes nothing; no operation rewrites the basis or area of
\* an existing panel, and add_new computes them for exactly the added panels.
C15_ComputeBasesIncremental ==
  /\ [](surf.state = "ok" =>
          /\ \A stray \in Stray : compute_bases(surf, surf.blen, stray) = surf
          /\ \A t \in Times :
               LET moved == ElementBase_transform(surf, t)
                   again == compute_bases(moved, surf.blen, ZeroVec)
               IN /\ Geometry(again, surf.blen) = Geometry(surf, surf.blen)
                  /\ compute_bases(again, surf.blen, ZeroVec) = again)
  /\ [][(surf.state = "ok" /\ surf'.state = "ok") =>
          /\ surf'.blen >= surf.blen
          /\ Geometry(surf', surf.blen) = Geometry(surf, surf.blen)
          /\ \E stray \in Stray : \A i \in (surf.blen + 1)..surf'.blen :
               /\ surf'.b[i] = PanelGeom(surf', i, stray).b
               /\ surf'.area[i] = PanelGeom(surf', i, stray).area]_vars

\* C15 witness: a body-bound collection was turned and a panel was then added;
\* the first panel keeps the basis it had and the second has the basis of its nodes.
C15_Witness ==
  /\ surf.state = "ok" /\ ~surf.ub /\ get_npanels(surf) = 2
  /\ surf.b[1] # PanelGeom(surf, 1, ZeroVec).b
  /\ surf.b[2] = PanelGeom(surf, 2, ZeroVec).b
  /\ \A d \in 1..Dimensions : IsFinite(surf.b[1].x1[d]) /\ IsFinite(surf.b[2].x1[d])

\* C16: every panel of a constructed or extended collection has an area > 0.
C16_AreaPositive ==
  surf.state = "ok" =>
    /\ surf.arealen = get_npanels(surf)
    /\ \A i \in 1..get_npanels(surf) : FPositive(surf.area[i])

\* ======================= claims about the right-hand side and velocities ===========

\* the vectors C17 names for a collection of nunkn unknowns per panel
C17_Projections(bb, nunkn) ==
  CASE nunkn = 1 -> <<bb.norm>>
    [] nunkn = 2 -> <<bb.x1, bb.x2>>
    [] OTHER -> <<bb.x1, bb.x2, bb.norm>>

\* -(u_i . e_j) - bc[j][i], with i from 1 and j from 0
C17_Entry(s, i, j) ==
  LET e == C17_Projections(s.b[i], s.bcn)[j + 1]
      u == s.pu[i]
      ue == PAdd(PAdd(PScale(u[1], e[1]), PScale(u[2], e[2])), PScale(u[3], e[3]))
  IN PAdd(PNeg(ue), PNeg(PConst(s.bc[j + 1][i])))

\* C17: for a reactive collection with nunkn = bc.size() in 1..3 and np panels
\* vels_to_rhs_panels returns nunkn*np values, the one at nunkn*i+j being
\* -(u_i . e_j) - bc[j][i], and leaves the collection as it was.
C17_RhsPanels ==
  [][(/\ surf.state = "ok" /\ surf.E = "reactive" /\ surf.bcn \in 1..3
      /\ RhsVisitPanels) =>
       /\ surf' = surf
       /\ rhs'.op = "panels"
       /\ Len(rhs'.val) = surf.bcn * get_npanels(surf)
       /\ \A i \in 1..get_npanels(surf) : \A j \in 0..(surf.bcn - 1) :
            rhs'.val[surf.bcn * (i - 1) + j + 1] = C17_Entry(surf, i, j)]_vars

\* C17 witness: the right-hand side of a reactive collection of two panels with
\* two unknowns each, taken after velocities were accumulated and finalized.
C17_Witness ==
  /\ surf.state = "ok" /\ surf.E = "reactive" /\ ~surf.ub
  /\ get_npanels(surf) = 2 /\ surf.bcn = 2
  /\ rhs.op = "panels" /\ Len(rhs.val) = 4
  /\ VelDegree(surf) = 1 /\ surf.pu[2][1] = <<R(1), R(1)>>
  /\ \A k \in 1..4 : \A c \in 1..Len(rhs.val[k]) : IsFinite(rhs.val[k][c])
  /\ rhs.val[3] # rhs.val[4]

\* C18: the right-hand side of a reactive collection with zero panels is computed
\* without error and is empty.
C18_RhsOfEmptyCollection ==
  [][(/\ surf.state = "ok" /\ surf.E = "reactive" /\ get_npanels(surf) = 0
      /\ RhsVisitPanels) =>
       /\ surf'.state = "ok"
       /\ rhs'.op = "panels" /\ rhs'.val = <<>>]_vars

\* C19: RHSVisitor applied to an active or inert collection, of particles or of
\* panels, yields no right-hand-side entry and no error.
C19_NoRhsFromSources ==
  /\ [][(/\ surf.state = "ok" /\ surf.E \in {"active", "inert"}
         /\ RhsVisitPanels) =>
          /\ surf'.state = "ok"
          /\ rhs'.val = <<>>]_vars
  /\ [][\A n \in 0..MaxParts, E \in {"active", "inert"} :
          RhsVisitPoints(n, E) => (surf'.state = surf.state /\ rhs'.val = <<>>)]_vars

\* F + u*factor, coefficient by coefficient
C20_Finalized(u, f) == [k \in 1..(Len(u) + 1) |-> IF k = 1 THEN f ELSE u[k - 1]]

\* the velocity of every panel with the freestream f added
C20_PlusFreestream(s, f) ==
  [i \in 1..Len(s.pu) |->
     IF i <= get_npanels(s)
       THEN [d \in 1..Dimensions |-> PAdd(s.pu[i][d], PConst(f[d]))]
       ELSE s.pu[i]]

C21_At(L, o, c) == {j \in 1..Len(L) : L[j].op = o /\ L[j].targ = c}

\* the move at position i of the log comes after one zero_vels of its
\* collection, every accumulation into it and then exactly one finalize_vels
C21_MoveIsFinalized(L, i) ==
  LET c == L[i].targ
      zs == {j \in C21_At(L, "zero", c) : j < i}
      fs == {j \in C21_At(L, "fin", c) : j < i}
      as == C21_At(L, "acc", c)
  IN /\ Cardinality(fs) = 1
     /\ \E z \in zs : \A f \in fs : z < f /\ \A a \in as : z < a /\ a < f

\* C21: every collection that step() moves was zeroed and then passed exactly
\* once through finalize_vels earlier in the same execution, after all
\* accumulation into it.
C21_MovedWithFinalizedVelocity ==
  \A t \in TaskIds : \A i \in 1..Len(tasks[t].log) :
    tasks[t].log[i].op = "move" => C21_MoveIsFinalized(tasks[t].log, i)

\* C22: a field-point collection is only ever a target: no accumulation of any
\* execution of step() has a member of fldpt as its source, and the targets of
\* the accumulations that have vort or bdry targets take vort and bdry sources only.
C22_FldptNeverSource ==
  \A t \in TaskIds : \A i \in 1..Len(tasks[t].log) :
    LET e == tasks[t].log[i] IN
      /\ e.op = "acc" => (IsKind(e.src, "vort") \/ IsKind(e.src, "bdry"))
      /\ e.op # "acc" => e.src = NoColl
      /\ IsKind(e.targ, "fldpt") => e.op \in {"zero", "acc", "fin", "move"}

\* C22 witness: a finished step has accumulated from a vort and from a bdry
\* collection into a field-point collection.
C22_Witness ==
  \E t \in TaskIds :
    /\ TaskDone(t) /\ fldpt >= 1
    /\ LogHas(tasks[t].log, "acc", V(1), F(1))
    /\ LogHas(tasks[t].log, "acc", B(1), F(1))
    /\ LogHas(tasks[t].log, "move", NoColl, F(1))

\* the caller is between two calls and the flag agrees with the future
C28_FlagIsFuture == callerpc = "ready" => (step_has_started = (stepfuture # 0))

\* a result is taken with get() only from a valid future
C28_GetOnValid ==
  (nconsumed' > nconsumed \/ (callerpc = "reset" /\ callerpc' = "ready" /\ tasks' # tasks))
    => stepfuture # 0

\* the future gives its result up only to a get(), never to the assignment of async_step
C28_ResultNotDropped ==
  (stepfuture # 0 /\ stepfuture' # stepfuture) => callerpc # "async_step"

\* C28: after every completed async_step, test_for_new_results or reset,
\* step_has_started is true exactly when stepfuture holds a valid result not yet
\* consumed; get() is never called on an invalid future; every step's result is
\* consumed exactly once, by test_for_new_results or by reset; and
\* step_is_finished is true exactly when test_for_new_results has consumed a
\* result since construction or the last reset.
C28_FlagsFollowTheFuture ==
  /\ [](C28_FlagIsFuture /\ (callerpc = "ready" => (step_is_finished = (nconsumed >= 1))))
  /\ [][C28_GetOnValid /\ C28_ResultNotDropped]_vars

\* C29: within one execution of step() the timestep given to every move and the
\* timestep added to time are one value, whatever the caller writes through
\* addr_dt() meanwhile.
C29_OneTimestepPerStep ==
  \A t \in TaskIds : Cardinality(tasks[t].dts) <= 1

\* the particles of all collections of v in the order they were added
RECURSIVE C27_All(_)
C27_All(v) == IF v = <<>> THEN <<>> ELSE Head(v).p \o C27_All(Tail(v))

\* particle i (from 1) of the vector as add_particles is to store it
C27_Stored(invec, i) ==
  [j \in 1..7 |-> IF j = 7 THEN get_vdelta(dt, re) ELSE invec[7 * (i - 1) + j]]

\* C27: add_particles with an empty vector changes nothing; with 7*k values it
\* adds exactly k particles, each with its 7th value set to the current
\* get_vdelta() and its positions and strengths as supplied; the first non-empty
\* call creates one active, free-moving collection in vort and every later call
\* appends to it, so vort holds at most one collection and get_nparts() is the
\* number of particles added.
C27_AddParticles ==
  /\ [](Len(pts) <= 1 /\ Len(vort) = Len(pts) /\ SumSeq(vort) = Len(C27_All(pts)))
  /\ [][\A invec \in AddVecs :
          AddParticlesVec(invec) =>
            LET k == Len(invec) \div 7 IN
              /\ Len(invec) = 0 => (pts' = pts /\ vort' = vort)
              /\ C27_All(pts') = C27_All(pts) \o [i \in 1..k |-> C27_Stored(invec, i)]
              /\ get_nparts(pts') = get_nparts(pts) + k
              /\ k > 0 => /\ Len(pts') = 1
                          /\ pts'[1].E = "active" /\ pts'[1].M = "lagrangian"]_vars

\* C27 witness: a second non-empty call has appended to the one collection after
\* the caller changed dt or re, so the two particles carry two different radii,
\* neither of them the radius supplied, and get_nparts() has returned two.
C27_Witness ==
  /\ Len(pts) = 1 /\ getn(pts[1]) = 2
  /\ pts[1].p[1][7] # pts[1].p[2][7]
  /\ \A i \in 1..2 :
       /\ pts[1].p[i][7] \in {get_vdelta(d, r) : d \in 1..MaxDt, r \in 1..MaxRe}
       /\ SubSeq(pts[1].p[i], 1, 6) = <<1, 0, 0, 0, 0, 1>>
  /\ ret = Ret("get_nparts", FALSE, 2)

\* ======================= more claims about Surfaces =======================

\* the seven values of panel i (from 1) in the flat vector v
C23_Part(v, i) == [j \in 1..7 |-> v[7 * (i - 1) + j]]

\* the centre of panel i of s pushed the distance d along its normal
C23_Position(s, i, d) ==
  [j \in 1..Dimensions |->
     FAdd(FMul(Q(1, 3), FAdd(FAdd(s.x[s.idx[3 * i - 2] + 1][j], s.x[s.idx[3 * i - 1] + 1][j]),
                             s.x[s.idx[3 * i] + 1][j])),
          FMul(d, s.b[i].norm[j]))]

\* C23: represent_as_particles(offset, vdelta) on a collection of np panels
\* returns 7*np values: per panel the centroid of its three nodes displaced by
\* offset along the normal, the strength (vs0*x1 + vs1*x2)*area from the current
\* vs, and vdelta; n, np, idx and vs are unchanged.
C23_RepresentAsParticles ==
  [][\A offset \in PxOffsets, vdelta \in PxVdeltas :
       (surf.state = "ok" /\ SurfRepresentAsParticles(offset, vdelta)) =>
          /\ surf'.state = "ok" /\ px'.op = "particles"
          /\ Len(px'.val) = 7 * surf.np
          /\ \A i \in 1..surf.np :
               /\ \A k \in 0..2 : surf.idx[3 * i - k] < surf.xlen
               /\ SubSeq(C23_Part(px'.val, i), 1, 3) = C23_Position(surf, i, offset)
               /\ SubSeq(C23_Part(px'.val, i), 4, 6)
                    = PanelStrength(surf.vs[i], surf.b[i], surf.area[i])
               /\ C23_Part(px'.val, i)[7] = vdelta
          /\ surf'.n = surf.n /\ surf'.np = surf.np
          /\ surf'.idx = surf.idx /\ surf'.vs = surf.vs]_vars

\* ======================= claims about the kernels =======================

\* the accumulated value acc is w / r^3 with r^2 = r2: nothing when w is zero,
\* otherwise one term c*sqrt(m) for which w / (c*r2) is the positive root of m*r2
C24_IsOverR3(acc, w, r2) ==
  IF w = R(0) THEN acc = SZero
  ELSE /\ Cardinality(acc) = 1
       /\ \A p \in acc :
            LET root == FMul(w, FInv(FMul(p[2], r2)))
            IN FPositive(root) /\ FMul(root, root) = FMul(R(p[1]), r2)

\* the squared distance of the call c from the target, with its core radii
C24_R2(c) ==
  LET d == VSub(kern.t, c.s)
  IN FAdd(FAdd(dot_product(d, d), FMul(c.sr, c.sr)),
          IF kern.op = "kernel_0v_0b" THEN FMul(kern.tr, kern.tr) ELSE R(0))

\* two calls of a point vortex kernel whose sources have opposite strengths and
\* equal cores and lie symmetrically about the target
C24_OppositePair ==
  /\ kern.op \in {"kernel_0v_0b", "kernel_0v_0p"}
  /\ Len(kern.calls) = 2
  /\ kern.calls[1].s # kern.calls[2].s
  /\ VSub(kern.t, kern.calls[1].s) = VSub(kern.calls[2].s, kern.t)
  /\ kern.calls[1].sr = kern.calls[2].sr
  /\ kern.calls[2].ss = [j \in 1..Dimensions |-> FNeg(kern.calls[1].ss[j])]

\* C24 as stated: for two point vortex sources of strengths s and -s placed
\* symmetrically about the target on the line joining them, with equal cores,
\* the velocity accumulated at the target is zero for every direction of s.
C24_OppositePairCancels ==
  C24_OppositePair => kern.acc.u = ZeroAcc.u

\* C24 amended: for two point vortex sources of strengths s and -s placed
\* symmetrically about the target on the line joining them, with equal cores,
\* the two sources add the same velocity: the accumulated velocity is
\* 2 * (s x (x_t - x_1)) / r^3, x_1 the position of the source of strength s,
\* which is zero exactly when s is parallel to the line joining them.
C24_OppositePairAddsUp ==
  C24_OppositePair =>
    LET c == kern.calls[1]
        w == cross_product(c.ss, VSub(kern.t, c.s))
    IN /\ \A j \in 1..Dimensions :
            C24_IsOverR3(kern.acc.u[j], FMul(R(2), w[j]), C24_R2(c))
       /\ (kern.acc.u = ZeroAcc.u) = (w = ZeroVec)

\* C24 witness: kernel_0v_0b has taken two opposite sources of core 0.05, 1.0
\* apart, with strengths across the line joining them, on the target midway.
C24_Witness ==
  /\ C24_OppositePair
  /\ kern.op = "kernel_0v_0b" /\ kern.tr = Q(1, 20)
  /\ kern.calls[1].sr = Q(1, 20)
  /\ kern.calls[1].ss = <<R(0), R(0), R(1)>>
  /\ kern.acc.u # ZeroAcc.u

\* one call of kernel_0v_0b or kernel_0v_0p is the step
C25_Call ==
  /\ kern.op \in {"kernel_0v_0b", "kernel_0v_0p"}
  /\ kern'.op = kern.op /\ kern'.t = kern.t /\ kern'.tr = kern.tr
  /\ Len(kern'.calls) = Len(kern.calls) + 1

\* the call has added w[j] / r^3 to each velocity accumulator and has left the
\* other accumulators alone
C25_Added(w) ==
  LET c == kern'.calls[Len(kern'.calls)]
  IN /\ \A j \in 1..Dimensions :
          C24_IsOverR3(SAdd(kern'.acc.u[j], SScale(kern.acc.u[j], R(-1))), w[j], C24_R2(c))
     /\ kern'.acc.g = kern.acc.g

\* C25 as stated: kernel_0v_0b adds to the target velocity ((x_t - x_s) x s)/r^3
\* with r^2 = |x_t - x_s|^2 + sr^2 + tr^2, kernel_0v_0p the same without tr^2;
\* both add to the accumulators, and neither applies 1/(4*pi).
C25_AddsDCrossS ==
  [][C25_Call =>
       LET c == kern'.calls[Len(kern'.calls)]
       IN C25_Added(cross_product(VSub(kern.t, c.s), c.ss))]_vars

\* C25 amended: kernel_0v_0b adds to the target velocity (s x (x_t - x_s))/r^3
\* with r^2 = |x_t - x_s|^2 + sr^2 + tr^2, kernel_0v_0p the same without tr^2;
\* both add to the accumulators, and neither applies 1/(4*pi).
C25_AddsSCrossD ==
  [][C25_Call =>
       LET c == kern'.calls[Len(kern'.calls)]
       IN C25_Added(cross_product(c.ss, VSub(kern.t, c.s)))]_vars

\* C25 witness: kernel_0v_0p has made a second call on accumulators the first
\* call left different from zero, and the two calls added different amounts.
C25_Witness ==
  /\ kern.op = "kernel_0v_0p" /\ Len(kern.calls) = 2
  /\ kern.calls[1] # kern.calls[2]
  /\ kern.calls[1].sr # kern.calls[2].sr
  /\ kern.acc.u # ZeroAcc.u
  /\ kern.acc.u # kernel_0v_0p(kern.calls[1].s, kern.calls[1].sr, kern.calls[1].ss,
                               kern.t, ZeroAcc).u
  /\ kern.acc.u # kernel_0v_0p(kern.calls[2].s, kern.calls[2].sr, kern.calls[2].ss,
                               kern.t, ZeroAcc).u

\* the point kernel a panel kernel stands on
C26_PointKernel(k) ==
  CASE k = "kernel_2_0p" -> "kernel_0v_0p"
    [] k = "kernel_2s_0p" -> "kernel_0s_0p"
    [] k = "kernel_2_0b" -> "kernel_0v_0b"
    [] k = "kernel_2_0bg" -> "kernel_0v_0bg"
    [] k = "kernel_2_0pg" -> "kernel_0v_0pg"

\* (a*v0 + b*v1 + c*v2) / n
C26_Sample(v, a, b, c, n) ==
  [j \in 1..Dimensions |->
     FMul(FAdd(FAdd(FMul(R(a), v[1][j]), FMul(R(b), v[2][j])), FMul(R(c), v[3][j])), Q(1, n))]

\* one quarter of a vector or of a scalar strength
C26_Quarter(k, ss) ==
  IF k = "kernel_2s_0p" THEN FMul(ss, Q(1, 4))
  ELSE [j \in 1..Dimensions |-> FMul(ss[j], Q(1, 4))]

\* four times a vector or a scalar strength
C26_FourTimes(k, ss) ==
  IF k = "kernel_2s_0p" THEN FAdd(FAdd(ss, ss), FAdd(ss, ss))
  ELSE [j \in 1..Dimensions |-> FAdd(FAdd(ss[j], ss[j]), FAdd(ss[j], ss[j]))]

\* the four calls of the point kernel on the accumulators acc
C26_FourCalls(k, v, ss, t, tr, acc) ==
  LET pk == C26_PointKernel(k)
      q == C26_Quarter(k, ss)
      a1 == ApplyPointKernel(pk, C26_Sample(v, 1, 1, 1, 3), R(0), q, t, tr, acc)
      a2 == ApplyPointKernel(pk, C26_Sample(v, 4, 1, 1, 6), R(0), q, t, tr, a1)
      a3 == ApplyPointKernel(pk, C26_Sample(v, 1, 4, 1, 6), R(0), q, t, tr, a2)
  IN ApplyPointKernel(pk, C26_Sample(v, 1, 1, 4, 6), R(0), q, t, tr, a3)

\* C26: each panel kernel (kernel_2_0p, kernel_2s_0p, kernel_2_0b, kernel_2_0bg,
\* kernel_2_0pg) leaves the accumulators as four calls of its point kernel do,
\* with source core 0 and a quarter of the panel strength, at (v0+v1+v2)/3,
\* (4*v0+v1+v2)/6, (v0+4*v1+v2)/6 and (v0+v1+4*v2)/6; the result is the same for
\* every order of the three vertices, and the four strengths sum to the panel's.
C26_PanelIsFourPointCalls ==
  [][(/\ kern.op \in PanelVortexKernels \cup {"kernel_2s_0p"}
      /\ kern'.op = kern.op /\ kern'.t = kern.t /\ kern'.tr = kern.tr
      /\ Len(kern'.calls) = Len(kern.calls) + 1) =>
       LET c == kern'.calls[Len(kern'.calls)]
       IN /\ kern'.acc = C26_FourCalls(kern.op, c.s, c.ss, kern.t, kern.tr, kern.acc)
          /\ \A p \in Perms3 :
               ApplyPanelKernel(kern.op, [i \in 1..3 |-> c.s[p[i]]], c.ss,
                                kern.t, kern.tr, kern.acc) = kern'.acc
          /\ C26_FourTimes(kern.op, C26_Quarter(kern.op, c.ss)) = c.ss
          /\ (kern.op # "kernel_2s_0p" => QuarterStr(c.ss) = C26_Quarter(kern.op, c.ss))]_vars

\* C26 witness: kernel_2_0bg has taken a second panel, on a target with a core,
\* and the velocity and the gradients it accumulated are not zero.
C26_Witness ==
  /\ kern.op = "kernel_2_0bg" /\ Len(kern.calls) = 2
  /\ kern.tr # R(0)
  /\ \A j \in 1..Dimensions : kern.acc.u[j] # SZero
  /\ \E j \in 1..9 : kern.acc.g[j] # SZero

\* ======================= claims about reset =======================

\* C30: reset() leaves vort, bdry and fldpt unchanged, get_nparts() returns the
\* same value before and after it, and re, dt and the freestream are unchanged:
\* from the entry into reset() to its return only time, sim_is_initialized,
\* step_has_started, step_is_finished and the future (with its thread) change.
C30_ResetKeepsCollections ==
  [][(callerpc = "reset" \/ callerpc' = "reset") =>
       /\ vort' = vort /\ pts' = pts /\ bdry' = bdry /\ fldpt' = fldpt
       /\ SumSeq(vort') = SumSeq(vort) /\ get_nparts(pts') = get_nparts(pts)
       /\ re' = re /\ dt' = dt /\ simfs' = simfs
       /\ ret' = ret /\ newfuture' = newfuture]_vars

\* C30 witness: two particles were counted, reset() was called and has returned,
\* and the first step after it has zeroed, finalized and moved the collection
\* that holds them, with re, dt and the freestream as the caller had set them.
C30_Witness ==
  /\ callerpc = "ready" /\ nstarted = 1
  /\ tasks[1] = JoinedTask /\ TaskDone(2) /\ stepfuture = 2
  /\ ret = Ret("get_nparts", FALSE, 2) /\ get_nparts(pts) = 2
  /\ LogHas(tasks[2].log, "zero", NoColl, V(1))
  /\ LogHas(tasks[2].log, "fin", NoColl, V(1))
  /\ LogHas(tasks[2].log, "move", NoColl, V(1))
  /\ re = 2 /\ dt = 2 /\ simfs = 1
  /\ time = 2

====
